---- MODULE Spec2Model ----
(***************************************************************************)
(* Job orchestration of the video transcoding service: the controller's   *)
(* three HTTP handlers (transcodeStart, getJobStatus, jobCallback), the    *)
(* transcoding_jobs table they share and the child process each job       *)
(* spawns.  Every await of a handler is a point where other handlers run,  *)
(* so a handler is one action per await-delimited segment; a database     *)
(* statement takes effect in the segment that resumes from its await.      *)
(***************************************************************************)
EXTENDS Integers, Sequences, FiniteSets, TLC

(***************************************************************************)
(* Bounds of the model.                                                    *)
(***************************************************************************)
MaxCreates == 1      \* POST /transcode requests
MaxCallbacks == 2    \* POST /jobs/:jobId/callback requests
MaxDbFailures == 1   \* Job Store statements that fail
MaxSubmits == 2      \* POST /transcode requests when only submissions run
MaxTime == 1         \* milliseconds that pass
MaxResolveCalls == 3 \* calls of createTranscodingConfig

JobIds == {"j1", "j2"}
Reqs == 1..MaxCreates

(***************************************************************************)
(* JSON values of a request body: [t |-> type, v |-> value].               *)
(***************************************************************************)
Undefined == [t |-> "undefined", v |-> <<>>]
Str(s) == [t |-> "string", v |-> s]
\* A number is held as its decimal text, so that values of all types compare.
Num(n) == [t |-> "number", v |-> <<n>>]

\* JavaScript truthiness of a body value (!x is its negation).
Truthy(x) ==
    CASE x.t = "undefined" -> FALSE
      [] x.t = "boolean" -> x.v = <<TRUE>>
      [] x.t = "number" -> x.v # <<"0">>
      [] x.t = "string" -> x.v # <<>>
      [] OTHER -> TRUE

\* Strings are sequences of characters; a preset name is one token.
KeyA == <<"u", "/", "v", ".", "m">>     \* "u/v.m"
KeyOther == <<"x", ".", "m">>           \* a key no job computes

\* The s3Key values a request body carries.
BodyS3Keys ==
    {Undefined, Str(<<>>), Str(<<" ">>), Num("5"), Str(KeyA)}

\* The resolutionPreset values a request body carries.
BodyPresets ==
    {Undefined, Str(<<>>), Str(<<"720p30av1">>), Str(<<"4k-mystery">>),
     Str(<<"constructor">>)}

\* String.prototype.trim() === '' : every character is white space.
TrimIsEmpty(s) == \A i \in 1..Len(s) : s[i] = " "

\* The keys of the preset table.
QUALITY_TO_PRESETS == {"1080p60av1", "1080p30av1", "720p30av1"}

\* Properties every object literal inherits from Object.prototype.
ObjectPrototypeKeys ==
    {"constructor", "toString", "valueOf", "hasOwnProperty", "__proto__",
     "isPrototypeOf", "propertyIsEnumerable", "toLocaleString"}

\* QUALITY_TO_PRESETS[name] is truthy: a bracket lookup on an object literal
\* finds own keys and inherited ones alike.
PresetLookupTruthy(name) ==
    name \in QUALITY_TO_PRESETS \/ name \in ObjectPrototypeKeys

\* The validation of transcodeStart: the status it answers, 0 when it passes.
ValidateRequest(s3Key, resolutionPreset) ==
    IF ~Truthy(s3Key) THEN 400
    ELSE IF ~Truthy(resolutionPreset) THEN 400
    ELSE IF s3Key.t # "string" \/ TrimIsEmpty(s3Key.v) THEN 400
    ELSE IF ~PresetLookupTruthy(resolutionPreset.v[1]) THEN 400
    ELSE 0

(***************************************************************************)
(* path.parse(s3Key) and the output key computed from it.                  *)
(***************************************************************************)
LastIndexOf(s, c) ==
    IF \E i \in 1..Len(s) : s[i] = c
    THEN CHOOSE i \in 1..Len(s) : s[i] = c /\ \A k \in (i+1)..Len(s) : s[k] # c
    ELSE 0

\* The largest index of a set of indices, 0 when it is empty.
LastOf(S) == IF S = {} THEN 0 ELSE CHOOSE i \in S : \A k \in S : k <= i

\* path.parse scans the path backwards and stops short of a leading slash.
IsAbsolute(s) == Len(s) > 0 /\ s[1] = "/"
ScanStart(s) == IF IsAbsolute(s) THEN 2 ELSE 1

\* Where the base ends: trailing slashes are skipped.  0 when there is none.
BaseEnd(s) == LastOf({i \in ScanStart(s)..Len(s) : s[i] # "/"})

\* The slash before the base, 0 when the scan meets none.
DirSlash(s) == LastOf({i \in ScanStart(s)..BaseEnd(s) : s[i] = "/"})

PathDir(s) ==
    IF DirSlash(s) > 0 THEN SubSeq(s, 1, DirSlash(s) - 1)
    ELSE IF IsAbsolute(s) THEN <<"/">> ELSE <<>>

PathBase(s) ==
    IF BaseEnd(s) = 0 THEN <<>>
    ELSE SubSeq(s, IF DirSlash(s) > 0 THEN DirSlash(s) + 1 ELSE ScanStart(s),
                BaseEnd(s))

\* The extension starts at the last dot of the base, unless that dot leads
\* the base or the base is "..".
PathExt(s) ==
    LET b == PathBase(s)
        i == LastIndexOf(b, ".")
    IN  IF i <= 1 \/ b = <<".", ".">> THEN <<>> ELSE SubSeq(b, i, Len(b))

PathName(s) ==
    LET b == PathBase(s)
    IN  SubSeq(b, 1, Len(b) - Len(PathExt(s)))

\* Mutant: the extension is left off the new file name.
OutputS3KeyNoExt(s3Key, preset) ==
    LET newFilename == PathName(s3Key) \o <<"_", preset>>
    IN  IF PathDir(s3Key) # <<>>
        THEN PathDir(s3Key) \o <<"/">> \o newFilename
        ELSE newFilename

OutputS3Key(s3Key, preset) ==
    LET newFilename == PathName(s3Key) \o <<"_", preset>> \o PathExt(s3Key)
    IN  IF PathDir(s3Key) # <<>>
        THEN PathDir(s3Key) \o <<"/">> \o newFilename
        ELSE newFilename

(***************************************************************************)
(* The callback body and its JSON text.                                    *)
(***************************************************************************)
Bool(b) == [t |-> "boolean", v |-> <<b>>]
\* detail objects; v is detail.outputS3Key, <<>> when the member is absent.
Detail(k) == [t |-> "object", v |-> k]

\* The bodies a callback request carries: the worker's two reports and
\* bodies any other client of the endpoint can send.
CallbackBodies ==
    {[success |-> Bool(TRUE), detail |-> Detail(OutputS3Key(KeyA, "720p30av1"))],
     [success |-> Bool(TRUE), detail |-> Detail(KeyOther)],
     [success |-> Bool(TRUE), detail |-> Undefined],
     [success |-> Bool(FALSE), detail |-> Detail(KeyOther)]}

\* JSON.stringify(req.body): the members whose value is not undefined.
JSONStringify(b) ==
    {<<k, b[k]>> : k \in {m \in DOMAIN b : b[m].t # "undefined"}}

\* JSON.parse(text), read through .success and .detail.
JSONParse(text) ==
    [k \in {"success", "detail"} |->
        IF \E p \in text : p[1] = k
        THEN (CHOOSE p \in text : p[1] = k)[2]
        ELSE Undefined]

(***************************************************************************)
(* The Configuration Resolver: createTranscodingConfig and what it calls   *)
(* (utils.js).  The input path is a non-empty string, and the audio codec  *)
(* and the format are the defaults: validateInput and the audio lookup     *)
(* pass, and the audio members of the result are left out.                 *)
(***************************************************************************)
\* JavaScript values of the members the resolver compares with numbers.  A
\* member that is absent reads as undefined.
JsUndefined == [t |-> "undefined", n |-> 0, s |-> ""]
JsNumber(n) == [t |-> "number", n |-> n, s |-> ""]
JsString(s) == [t |-> "string", n |-> 0, s |-> s]

JsTruthy(x) ==
    CASE x.t = "number" -> x.n # 0
      [] x.t = "string" -> x.s # ""
      [] OTHER -> FALSE

\* a || b
JsOr(a, b) == IF JsTruthy(a) THEN a ELSE b

\* The values of the members of a filter configuration.
NoFilter == [t |-> "undefined", n |-> 0, width |-> 0, height |-> 0, list |-> <<>>]
ScaleFilter(w, h) == [NoFilter EXCEPT !.t = "object", !.width = w, !.height = h]
FpsFilter(n) == [NoFilter EXCEPT !.t = "number", !.n = n]
FlagFilter(b) == [NoFilter EXCEPT !.t = "boolean", !.n = IF b THEN 1 ELSE 0]
DenoiseFilter(strength) == [NoFilter EXCEPT !.t = "object", !.n = strength]
CropFilter(w, h) == [NoFilter EXCEPT !.t = "object", !.width = w, !.height = h]
PadFilter(w, h) == [NoFilter EXCEPT !.t = "object", !.width = w, !.height = h]
CustomFilter(list) == [NoFilter EXCEPT !.t = "array", !.list = list]

FilterTruthy(v) ==
    CASE v.t = "undefined" -> FALSE
      [] v.t = "number" -> v.n # 0
      [] v.t = "boolean" -> v.n = 1
      [] OTHER -> TRUE

\* A filter configuration: its members as <<key, value>> in the order the
\* keys were inserted; or undefined.
FiltersObject(members) == [t |-> "object", members |-> members]
FiltersUndefined == [t |-> "undefined", members |-> <<>>]

\* filters[key]
FilterMember(filters, key) ==
    IF \E i \in 1..Len(filters.members) : filters.members[i][1] = key
    THEN filters.members[CHOOSE i \in 1..Len(filters.members) :
                             filters.members[i][1] = key][2]
    ELSE NoFilter

\* An advanced configuration: the members the resolver reads; additionalArgs
\* is <<>> when absent and <<array>> when present.
NoAdvanced ==
    [t |-> "object", crf |-> JsUndefined, preset |-> "", width |-> JsUndefined,
     height |-> JsUndefined, framerate |-> JsUndefined, additionalArgs |-> <<>>]
AdvancedUndefined == [NoAdvanced EXCEPT !.t = "undefined"]

\* JSON.stringify(x) === JSON.stringify({}): no member has a value.
FiltersJsonEmpty(filters) ==
    \A i \in 1..Len(filters.members) : filters.members[i][2].t = "undefined"
AdvancedJsonEmpty(advanced) == advanced = NoAdvanced

\* An engine argument; the pair "-vf", chain.join(",") is one argument that
\* holds the chain.
Arg(flag) == [flag |-> flag, chain |-> <<>>]
VfArg(chain) == [flag |-> "-vf", chain |-> chain]

\* One filter of a chain: its name and its numbers.
FilterText(f, args) == [f |-> f, args |-> args]

\* Mutant: the chain lists the filters in the order of the keys.
FilterChainInKeyOrder(filters) ==
    LET Part(i) ==
            LET key == filters.members[i][1]
                v == filters.members[i][2]
            IN  IF ~FilterTruthy(v) THEN <<>>
                ELSE CASE key = "scale" -> <<FilterText("scale", <<v.width, v.height>>)>>
                       [] key = "fps" -> <<FilterText("fps", <<v.n>>)>>
                       [] key = "deinterlace" -> <<FilterText("yadif", <<>>)>>
                       [] key = "denoise" -> <<FilterText("hqdn3d", <<v.n>>)>>
                       [] key = "crop" -> <<FilterText("crop", <<v.width, v.height, 0, 0>>)>>
                       [] key = "pad" -> <<FilterText("pad", <<v.width, v.height, 0, 0>>)>>
                       [] OTHER -> [k \in 1..Len(v.list) |-> FilterText(v.list[k], <<>>)]
        Chain[i \in 0..Len(filters.members)] ==
            IF i = 0 THEN <<>> ELSE Chain[i - 1] \o Part(i)
    IN  Chain[Len(filters.members)]

\* filterChain of generateVideoFilters: one test per filter, in this order.
\* The x, y of crop and pad are the defaults; a denoise strength of 0 stands
\* for "default".
FilterChain(filters) ==
    LET M(key) == FilterMember(filters, key)
        Part(key, text) == IF FilterTruthy(M(key)) THEN <<text>> ELSE <<>>
    IN  Part("scale", FilterText("scale", <<M("scale").width, M("scale").height>>))
        \o Part("fps", FilterText("fps", <<M("fps").n>>))
        \o Part("deinterlace", FilterText("yadif", <<>>))
        \o Part("denoise", FilterText("hqdn3d", <<M("denoise").n>>))
        \o Part("crop", FilterText("crop", <<M("crop").width, M("crop").height, 0, 0>>))
        \o Part("pad", FilterText("pad", <<M("pad").width, M("pad").height, 0, 0>>))
        \o (IF FilterTruthy(M("custom"))
            THEN [k \in 1..Len(M("custom").list) |->
                     FilterText(M("custom").list[k], <<>>)]
            ELSE <<>>)

\* generateVideoFilters(filters), for filters that are an object.
GenerateVideoFilters(filters) ==
    IF FilterChain(filters) # <<>> THEN <<VfArg(FilterChain(filters))>> ELSE <<>>

\* What a lookup in an object literal finds: an own member, a member of
\* Object.prototype (a function, say), or nothing.
LookupKind(keys, name) ==
    IF name \in keys THEN "own"
    ELSE IF name \in ObjectPrototypeKeys THEN "inherited"
    ELSE "none"

\* VIDEO_CODECS.
VIDEO_CODECS ==
    [av1 |-> [name |-> "libsvtav1",
              quality |-> [min |-> 0, max |-> 63],
              default |-> [crf |-> JsNumber(60), preset |-> "16",
                           width |-> JsNumber(896), height |-> JsNumber(504)]]]

\* QUALITY_TO_PRESETS, with its values.
PresetTable ==
    [q \in QUALITY_TO_PRESETS |->
        [width |-> JsNumber(IF q = "720p30av1" THEN 1280 ELSE 1920),
         height |-> JsNumber(IF q = "720p30av1" THEN 720 ELSE 1080),
         crf |-> JsNumber(49),
         preset |-> IF q = "720p30av1" THEN "12" ELSE "10",
         filters |-> FiltersObject(
             <<<<"fps", FpsFilter(IF q = "1080p60av1" THEN 60 ELSE 30)>>>>),
         advanced |-> [NoAdvanced EXCEPT !.additionalArgs =
             <<<<Arg("-svtav1-params"),
                 Arg(IF q = "1080p60av1" THEN "levels=3" ELSE "levels=2")>>>>]]]

ModuleTables == [quality |-> PresetTable, video |-> VIDEO_CODECS]

\* The members of a value that is not a preset: all undefined.
NoPreset ==
    [width |-> JsUndefined, height |-> JsUndefined, crf |-> JsUndefined,
     preset |-> "", filters |-> FiltersUndefined, advanced |-> AdvancedUndefined]

\* qualityConfig, read through its members.
QualityConfig(quality, name) ==
    IF name \in DOMAIN quality THEN quality[name] ELSE NoPreset

\* The output before validation; what is absent is undefined.
NoOutput ==
    [videoCodec |-> "", crf |-> JsUndefined, preset |-> "", width |-> JsUndefined,
     height |-> JsUndefined, framerate |-> JsUndefined, additionalArgs |-> <<>>]

\* {...output, ...advanced}: the members advanced has replace output's.
Spread(output, advanced) ==
    IF advanced.t = "undefined" THEN output
    ELSE [output EXCEPT
             !.crf = IF advanced.crf.t # "undefined" THEN advanced.crf ELSE @,
             !.preset = IF advanced.preset # "" THEN advanced.preset ELSE @,
             !.width = IF advanced.width.t # "undefined" THEN advanced.width ELSE @,
             !.height = IF advanced.height.t # "undefined" THEN advanced.height ELSE @,
             !.framerate =
                 IF advanced.framerate.t # "undefined" THEN advanced.framerate ELSE @,
             !.additionalArgs =
                 IF advanced.additionalArgs # <<>> THEN advanced.additionalArgs ELSE @]

\* validateOutput: the member it throws for, "" when it returns.
ValidateOutput(output) ==
    IF JsTruthy(output.width) /\ (output.width.t # "number" \/ output.width.n <= 0)
    THEN "width"
    ELSE IF JsTruthy(output.height)
            /\ (output.height.t # "number" \/ output.height.n <= 0)
    THEN "height"
    ELSE IF JsTruthy(output.framerate)
            /\ (output.framerate.t # "number" \/ output.framerate.n <= 0)
    THEN "framerate"
    ELSE IF JsTruthy(output.crf)
            /\ (output.crf.t # "number" \/ output.crf.n < 0 \/ output.crf.n > 51)
    THEN "crf"
    ELSE ""

\* The result of a call: the configuration's output, or the error thrown.
Thrown(e) == [ok |-> FALSE, error |-> e, output |-> NoOutput]
Returned(output) == [ok |-> TRUE, error |-> "", output |-> output]

\* Mutant: the caller's filters are added to the preset's.
MutateFiltersMerge(filters, qualityConfig) ==
    IF FiltersJsonEmpty(filters) THEN qualityConfig.filters
    ELSE FiltersObject(qualityConfig.filters.members \o filters.members)

\* mutateFilters: the preset's filters when the caller's are empty.
MutateFilters(filters, qualityConfig) ==
    IF FiltersJsonEmpty(filters) THEN qualityConfig.filters ELSE filters

\* mutateAdvanced: the preset's advanced when the caller's is empty.
MutateAdvanced(advanced, qualityConfig) ==
    IF AdvancedJsonEmpty(advanced) THEN qualityConfig.advanced ELSE advanced

\* createTranscodingConfig(o) with the tables as they are.  A TypeError is
\* thrown where a member of undefined is read: qualityConfig.filters or
\* .advanced of an unknown preset, videoCodecConfig.default of a value that
\* is no codec, filters.scale of undefined filters.
CreateTranscodingConfig(o, tabs) ==
    LET codecKind == LookupKind(DOMAIN tabs.video, o.videoCodec)
        presetKind == LookupKind(DOMAIN tabs.quality, o.quality)
        qualityConfig == QualityConfig(tabs.quality, o.quality)
        mutateFilters == MutateFilters(o.filters, qualityConfig)
        mutateAdvanced == MutateAdvanced(o.advanced, qualityConfig)
        needsDefault ==
            \/ ~JsTruthy(qualityConfig.crf) \/ qualityConfig.preset = ""
            \/ ~JsTruthy(qualityConfig.width) \/ ~JsTruthy(qualityConfig.height)
        codecDefault ==
            IF codecKind = "own" THEN tabs.video[o.videoCodec].default
            ELSE [crf |-> JsUndefined, preset |-> "", width |-> JsUndefined,
                  height |-> JsUndefined]
        output ==
            Spread([NoOutput EXCEPT
                       !.videoCodec = IF codecKind = "own"
                                      THEN tabs.video[o.videoCodec].name
                                      ELSE "Object",
                       !.crf = JsOr(qualityConfig.crf, codecDefault.crf),
                       !.preset = IF qualityConfig.preset # ""
                                  THEN qualityConfig.preset ELSE codecDefault.preset,
                       !.width = JsOr(qualityConfig.width, codecDefault.width),
                       !.height = JsOr(qualityConfig.height, codecDefault.height)],
                   mutateAdvanced)
        filterArgs == GenerateVideoFilters(mutateFilters)
        withFilters ==
            IF filterArgs # <<>>
            THEN [output EXCEPT !.additionalArgs =
                     <<(IF @ = <<>> THEN <<>> ELSE @[1]) \o filterArgs>>]
            ELSE output
    IN  IF codecKind = "none" THEN Thrown("Unsupported video codec")
        ELSE IF presetKind = "none"
                /\ (FiltersJsonEmpty(o.filters) \/ AdvancedJsonEmpty(o.advanced))
        THEN Thrown("TypeError")
        ELSE IF codecKind = "inherited" /\ needsDefault THEN Thrown("TypeError")
        ELSE IF mutateFilters.t = "undefined" THEN Thrown("TypeError")
        ELSE IF ValidateOutput(withFilters) # ""
        THEN Thrown(ValidateOutput(withFilters))
        ELSE Returned(withFilters)

(***************************************************************************)
(* State.                                                                  *)
(***************************************************************************)
VARIABLES
    dataAccess,   \* the controller's lazily initialised handle: "null" or "ready"
    jobs,         \* table transcoding_jobs: job_id -> row
    req,          \* the transcodeStart requests, by slot
    nReq,         \* transcodeStart requests received
    child,        \* per job id, the spawned ChildProcess
    listener,     \* per job id, whether workerProcess.on('error') is registered
    crashed,      \* the server process died of an unhandled 'error' event
    cbs,          \* the jobCallback requests, by slot
    nCb,          \* jobCallback requests received
    cbResp,       \* the response jobCallback sent in the last step, if any
    lastStatus,   \* the response getJobStatus sent in the last step, if any
    dbFailures,   \* Job Store statements that failed so far
    returned,     \* job ids transcodeStart answered with status "progressing"
    handled       \* <<job id, truthy success>> of the callbacks whose update ran

\* The worker processes (one per job id), the Blob Store, the worker's
\* temp directory and the callback requests on their way to the server.
VARIABLES
    argv,         \* per job id, process.argv.slice(2) of its worker
    wpc,          \* per job id, where its worker is: "off" before it starts
    exitCode,     \* per job id, the exit status of its worker, -1 while none
    tmpTs,        \* per job id, the Date.now() in its temp file names, -1 before
    caught,       \* per job id, the step whose error the catch block caught
    sent,         \* per job id, the callback bodies its worker sent
    engineRuns,   \* per job id, how often the transcoding engine was invoked
    uploads,      \* per job id, how many PutObject requests were sent
    blob,         \* the keys of the objects in the bucket
    disk,         \* the files in the temp directory
    now,          \* Date.now()
    net           \* callback requests sent and not yet received

\* The Configuration Resolver (utils.js) and a caller of it.
VARIABLES
    options,      \* the options the caller resolves
    calls,        \* the calls of createTranscodingConfig so far: options and result
    tables        \* the module's tables QUALITY_TO_PRESETS and VIDEO_CODECS

\* The data layer under the controller: the data-access instances, their
\* connections, and the requests that go through initializeDatabase.
VARIABLES
    instances,    \* the SQLiteDataAccess objects created so far, in order
    nConn,        \* connections sqlite's open() has opened so far
    ireq,         \* per request, how far it is through initializeDatabase
    rows,         \* a table of the database, as a sequence of rows
    upd,          \* the last call of SQLiteDataAccess.update and its result
    store,        \* the writes the shared connection's database holds
    inTx,         \* whether the shared connection is inside a transaction
    undo,         \* the writes made since that transaction began
    txs,          \* the calls of executeTransaction, by caller
    writers       \* the calls of executeQuery, by caller

resolverVars == <<options, calls, tables>>

layerVars == <<instances, nConn, ireq, rows, upd, store, inTx, undo, txs, writers>>

orchVars == <<dataAccess, jobs, req, nReq, child, listener, crashed, cbs, nCb,
              dbFailures, returned, handled>>

workerVars == <<argv, wpc, exitCode, tmpTs, caught, sent, engineRuns, uploads,
                blob, disk, now>>

vars == <<dataAccess, jobs, req, nReq, child, listener, crashed, cbs, nCb,
          cbResp, lastStatus, dbFailures, returned, handled,
          argv, wpc, exitCode, tmpTs, caught, sent, engineRuns, uploads,
          blob, disk, now, net, options, calls, tables,
          instances, nConn, ireq, rows, upd, store, inTx, undo, txs, writers>>

CbSlots == 1..MaxCallbacks

IdleReq == [pc |-> "idle", jobId |-> "", s3Key |-> <<>>, preset |-> "", code |-> 0]
IdleCb == [pc |-> "idle", jobId |-> "", body |-> [success |-> Undefined, detail |-> Undefined]]
NoStatus == [code |-> 0, jobId |-> "", state |-> "", callback |-> <<>>]
NoCbResp == [code |-> 0, jobId |-> ""]

TermState == {"failed", "completed"}

\* A step that sends no jobCallback or getJobStatus response.
NoResponse == cbResp' = NoCbResp /\ lastStatus' = NoStatus

\* The state when the server has started: no job, no request, no worker;
\* slots are the transcodeStart requests that will arrive.
StartState(slots) ==
    /\ dataAccess = "null"
    /\ jobs = <<>>
    /\ req = [r \in slots |-> IdleReq]
    /\ nReq = 0
    /\ child = [j \in JobIds |-> "none"]
    /\ listener = [j \in JobIds |-> FALSE]
    /\ crashed = FALSE
    /\ cbs = [c \in CbSlots |-> IdleCb]
    /\ nCb = 0
    /\ cbResp = NoCbResp
    /\ lastStatus = NoStatus
    /\ dbFailures = 0
    /\ returned = {}
    /\ handled = {}
    /\ argv = [j \in JobIds |-> <<>>]
    /\ wpc = [j \in JobIds |-> "off"]
    /\ exitCode = [j \in JobIds |-> -1]
    /\ tmpTs = [j \in JobIds |-> -1]
    /\ caught = [j \in JobIds |-> ""]
    /\ sent = [j \in JobIds |-> <<>>]
    /\ engineRuns = [j \in JobIds |-> 0]
    /\ uploads = [j \in JobIds |-> 0]
    /\ blob = {}
    /\ disk = {}
    /\ now = 0
    /\ net = {}

\* The options a call leaves out take their defaults.
DefaultOptions ==
    [quality |-> "720p30av1", videoCodec |-> "av1",
     filters |-> FiltersObject(<<>>), advanced |-> NoAdvanced]

\* No call of the resolver is observed.
ResolverIdle ==
    /\ options = DefaultOptions
    /\ calls = <<>>
    /\ tables = ModuleTables

\* The requests that go through initializeDatabase while the handle is
\* being made.
MaxInitReqs == 3
InitReqs == 1..MaxInitReqs

IdleInitReq == [pc |-> "start", inst |-> 0, conn |-> 0]

\* No call of update has been made.
NoUpdate ==
    [called |-> FALSE, data |-> <<>>, conditions |-> <<>>, before |-> <<>>,
     query |-> [set |-> <<>>, where |-> <<>>], params |-> <<>>,
     result |-> [success |-> FALSE, changes |-> 0]]

\* No data-access object exists and no connection is open.
HandleIdle ==
    /\ instances = <<>>
    /\ nConn = 0
    /\ ireq = [p \in InitReqs |-> IdleInitReq]

\* The callers of executeTransaction and of executeQuery on the shared
\* connection, and the statements of a transaction.
MaxTx == 3
MaxWriters == 1
MaxTxQueries == 2
TxIds == 1..MaxTx
WriterIds == 1..MaxWriters

\* The connection is open, in autocommit mode, and nobody has called yet.
ConnectionIdle ==
    /\ store = {}
    /\ inTx = FALSE
    /\ undo = {}
    /\ txs = [t \in TxIds |-> [pc |-> "begin", k |-> 0, success |-> FALSE]]
    /\ writers = [w \in WriterIds |-> [pc |-> "run", success |-> FALSE]]

\* No table is observed.
LayerIdle ==
    /\ HandleIdle
    /\ rows = <<>>
    /\ upd = NoUpdate
    /\ ConnectionIdle

Init == StartState(Reqs) /\ ResolverIdle /\ LayerIdle

(***************************************************************************)
(* The Job Store.  A statement either runs or fails (database busy, I/O    *)
(* error, connection not opened); the data layer turns a failure into      *)
(* {success: false} and never throws.                                      *)
(***************************************************************************)
\* The outcomes a statement can have: it may fail while failures remain.
DbOutcomes == IF dbFailures < MaxDbFailures THEN {TRUE, FALSE} ELSE {TRUE}

DbCount(ok) == IF ok THEN dbFailures ELSE dbFailures + 1

\* INSERT INTO transcoding_jobs: job_id is the primary key.
InsertSucceeds(ok, jobId) == ok /\ jobId \notin DOMAIN jobs

InsertRow(jobId, row) ==
    [j \in DOMAIN jobs \cup {jobId} |-> IF j = jobId THEN row ELSE jobs[j]]

\* Mutant: the UPDATE has no WHERE clause and writes every row.
UpdateRowNoWhere(jobId, data) ==
    [j \in DOMAIN jobs |->
        [f \in DOMAIN jobs[j] |->
            IF f \in DOMAIN data THEN data[f] ELSE jobs[j][f]]]

\* UPDATE transcoding_jobs SET data WHERE job_id = jobId.
UpdateRow(jobId, data) ==
    [j \in DOMAIN jobs |->
        IF j = jobId
        THEN [f \in DOMAIN jobs[j] |->
                 IF f \in DOMAIN data THEN data[f] ELSE jobs[j][f]]
        ELSE jobs[j]]

\* initializeDatabase(): the handle is created on first use.
InitializeDatabase == dataAccess' = "ready"

(***************************************************************************)
(* transcodeStart.                                                         *)
(***************************************************************************)
\* The job record transcodeStart inserts.
JobData(jobId, s3Key, preset) ==
    [job_state |-> "waiting",
     input_s3_key |-> s3Key,
     output_s3_key |-> OutputS3Key(s3Key, preset),
     target_quality |-> preset,
     callback_data |-> <<>>]

\* Mutant: the update after spawn() writes a state the table does not know.
DispatchStateRunning == "running"

\* Mutant: the update after spawn() writes the failure state.
DispatchStateFailed == "failed"

\* The state the update after spawn() writes.
DispatchState == "progressing"

\* Mutant: the 'error' listener records success.
SpawnErrorStateCompleted == "completed"

\* The state the 'error' listener of the child process writes.
SpawnErrorState == "failed"

\* Validation, job id, initializeDatabase(), and the INSERT is issued.
TranscodeStart(r, s3Key, resolutionPreset, jobId) ==
    /\ ~crashed
    /\ r = nReq + 1
    /\ r \in DOMAIN req
    /\ nReq' = nReq + 1
    /\ IF ValidateRequest(s3Key, resolutionPreset) # 0
       THEN /\ req' = [req EXCEPT ![r] =
                  [IdleReq EXCEPT !.pc = "done",
                                  !.code = ValidateRequest(s3Key, resolutionPreset)]]
            /\ UNCHANGED dataAccess
       ELSE /\ req' = [req EXCEPT ![r] =
                  [pc |-> "insert", jobId |-> jobId, s3Key |-> s3Key.v,
                   preset |-> resolutionPreset.v[1], code |-> 0]]
            /\ InitializeDatabase
    /\ NoResponse
    /\ UNCHANGED <<jobs, child, listener, crashed, cbs, nCb,
                   dbFailures, returned, handled>>
    /\ UNCHANGED <<workerVars, net, resolverVars, layerVars>>

\* Mutant: transcodeStart goes on to the spawn whatever create returned.
CreateFailedIgnored(success) == FALSE

\* `if (!createResult.success)`.
CreateFailed(success) == ~success

\* dataAccess.create() resumes: 500 when it failed, else on to the spawn.
CreateJobRecord(r, ok) ==
    /\ ~crashed
    /\ req[r].pc = "insert"
    /\ dbFailures' = DbCount(ok)
    /\ jobs' = IF InsertSucceeds(ok, req[r].jobId)
               THEN InsertRow(req[r].jobId,
                              JobData(req[r].jobId, req[r].s3Key, req[r].preset))
               ELSE jobs
    /\ req' = IF CreateFailed(InsertSucceeds(ok, req[r].jobId))
              THEN [req EXCEPT ![r] = [IdleReq EXCEPT !.pc = "done", !.code = 500]]
              ELSE [req EXCEPT ![r].pc = "spawn"]
    /\ NoResponse
    /\ UNCHANGED <<dataAccess, nReq, child, listener, crashed, cbs, nCb,
                   returned, handled>>
    /\ UNCHANGED <<workerVars, net, resolverVars, layerVars>>

\* The arguments the worker is spawned with.
WorkerArgs(jobId, s3Key, preset) ==
    <<jobId, s3Key, OutputS3Key(s3Key, preset), preset>>

\* What spawn('node', ...) can do: start the child, fail to launch it (an
\* 'error' event follows), or throw.
SpawnOutcomes == {"running", "spawnfailed", "throws"}

\* import('child_process') resumes; spawn() runs and the UPDATE to
\* 'progressing' is issued.  A throw lands in the catch block: 500.
SpawnWorker(r, outcome) ==
    /\ ~crashed
    /\ req[r].pc = "spawn"
    /\ IF outcome = "throws"
       THEN /\ req' = [req EXCEPT ![r] =
                  [IdleReq EXCEPT !.pc = "done", !.code = 500]]
            /\ UNCHANGED child
       ELSE /\ child' = [child EXCEPT ![req[r].jobId] = outcome]
            /\ req' = [req EXCEPT ![r].pc = "update"]
    /\ IF outcome = "running"
       THEN /\ argv' = [argv EXCEPT ![req[r].jobId] =
                   WorkerArgs(req[r].jobId, req[r].s3Key, req[r].preset)]
            /\ wpc' = [wpc EXCEPT ![req[r].jobId] = "main"]
       ELSE UNCHANGED <<argv, wpc>>
    /\ NoResponse
    /\ UNCHANGED <<dataAccess, jobs, nReq, listener, crashed, cbs, nCb,
                   dbFailures, returned, handled>>
    /\ UNCHANGED <<exitCode, tmpTs, caught, sent, engineRuns, uploads,
                   blob, disk, now, net, resolverVars, layerVars>>

\* The UPDATE to 'progressing' runs (or fails: its result is not looked at).
UpdateProgressing(r, ok) ==
    /\ ~crashed
    /\ req[r].pc = "update"
    /\ dbFailures' = DbCount(ok)
    /\ jobs' = IF ok
               THEN UpdateRow(req[r].jobId, [job_state |-> DispatchState])
               ELSE jobs
    /\ req' = [req EXCEPT ![r].pc = "listen"]
    /\ NoResponse
    /\ UNCHANGED <<dataAccess, nReq, child, listener, crashed, cbs, nCb,
                   returned, handled>>
    /\ UNCHANGED <<workerVars, net, resolverVars, layerVars>>

\* Mutant: the handler also awaits the end of the child process.
ResponseAwaitsExit == {"update", "exit"}

\* What transcodeStart awaits between spawn() and its response: the UPDATE,
\* and no event of the child process.
ResponseAwaits == {"update"}

\* The await of the update resumes: the listeners are registered and the
\* response {jobId, status: "progressing"} is sent.
RegisterAndRespond(r) ==
    /\ ~crashed
    /\ req[r].pc = "listen"
    /\ "exit" \in ResponseAwaits => wpc[req[r].jobId] \in {"exited", "killed"}
    /\ listener' = [listener EXCEPT ![req[r].jobId] = TRUE]
    /\ returned' = returned \cup {req[r].jobId}
    /\ req' = [req EXCEPT ![r] =
           [IdleReq EXCEPT !.pc = "done", !.code = 200, !.jobId = req[r].jobId]]
    /\ NoResponse
    /\ UNCHANGED <<dataAccess, jobs, nReq, child, crashed, cbs, nCb,
                   dbFailures, handled>>
    /\ UNCHANGED <<workerVars, net, resolverVars, layerVars>>

\* The child process emits 'error' (it could not be launched).  With the
\* listener registered the job is written 'failed'; with none, emit throws
\* and the server dies of the uncaught exception.
SpawnError(j, ok) ==
    /\ ~crashed
    /\ child[j] = "spawnfailed"
    /\ child' = [child EXCEPT ![j] = "errored"]
    /\ IF listener[j]
       THEN /\ dbFailures' = DbCount(ok)
            /\ jobs' = IF ok
                       THEN UpdateRow(j, [job_state |-> SpawnErrorState])
                       ELSE jobs
            /\ UNCHANGED crashed
       ELSE /\ ok
            /\ crashed' = TRUE
            /\ UNCHANGED <<jobs, dbFailures>>
    /\ NoResponse
    /\ UNCHANGED <<dataAccess, req, nReq, listener, cbs, nCb,
                   returned, handled>>
    /\ UNCHANGED <<workerVars, net, resolverVars, layerVars>>

(***************************************************************************)
(* jobCallback.                                                            *)
(***************************************************************************)
\* Mutant: the two branches of the ternary are swapped.
CallbackStateSwapped(success) == IF Truthy(success) THEN "failed" ELSE "completed"

\* The state a callback writes.
CallbackState(success) == IF Truthy(success) THEN "completed" ELSE "failed"

\* Mutant: the output key is stored whatever success is.
UpdateDataAnySuccess(body) ==
    IF Truthy(body.detail) /\ body.detail.v # <<>>
    THEN [job_state |-> CallbackState(body.success),
          callback_data |-> <<JSONStringify(body)>>,
          output_s3_key |-> body.detail.v]
    ELSE [job_state |-> CallbackState(body.success),
          callback_data |-> <<JSONStringify(body)>>]

\* The columns a callback updates.
UpdateData(body) ==
    IF Truthy(body.success) /\ Truthy(body.detail) /\ body.detail.v # <<>>
    THEN [job_state |-> CallbackState(body.success),
          callback_data |-> <<JSONStringify(body)>>,
          output_s3_key |-> body.detail.v]
    ELSE [job_state |-> CallbackState(body.success),
          callback_data |-> <<JSONStringify(body)>>]

\* initializeDatabase() and readOne(): 404 when the read failed or found no
\* row, else the UPDATE is issued.
JobCallback(c, jobId, body, ok) ==
    /\ ~crashed
    /\ c = nCb + 1
    /\ nCb < MaxCallbacks
    /\ nCb' = nCb + 1
    /\ InitializeDatabase
    /\ dbFailures' = DbCount(ok)
    /\ IF ~ok \/ jobId \notin DOMAIN jobs
       THEN /\ cbResp' = [code |-> 404, jobId |-> jobId]
            /\ cbs' = [cbs EXCEPT ![c] = [IdleCb EXCEPT !.pc = "done"]]
       ELSE /\ cbs' = [cbs EXCEPT ![c] =
                  [pc |-> "update", jobId |-> jobId, body |-> body]]
            /\ cbResp' = NoCbResp
    /\ lastStatus' = NoStatus
    /\ UNCHANGED <<jobs, req, nReq, child, listener, crashed, returned, handled>>
    /\ UNCHANGED <<workerVars, resolverVars, layerVars>>

\* The UPDATE of the callback runs: 200, or 500 when it failed.
CallbackUpdate(c, ok) ==
    /\ ~crashed
    /\ cbs[c].pc = "update"
    /\ dbFailures' = DbCount(ok)
    /\ cbs' = [cbs EXCEPT ![c] = [IdleCb EXCEPT !.pc = "done"]]
    /\ IF ok
       THEN /\ jobs' = UpdateRow(cbs[c].jobId, UpdateData(cbs[c].body))
            /\ cbResp' = [code |-> 200, jobId |-> cbs[c].jobId]
            /\ handled' = handled \cup
                   {<<cbs[c].jobId, Truthy(cbs[c].body.success)>>}
       ELSE /\ cbResp' = [code |-> 500, jobId |-> cbs[c].jobId]
            /\ UNCHANGED <<jobs, handled>>
    /\ lastStatus' = NoStatus
    /\ UNCHANGED <<dataAccess, req, nReq, child, listener, crashed, nCb, returned>>
    /\ UNCHANGED <<workerVars, net, resolverVars, layerVars>>

(***************************************************************************)
(* getJobStatus.                                                           *)
(***************************************************************************)
\* The response built from the row that readOne() returned.
StatusResponse(jobId, job) ==
    [code |-> 200, jobId |-> jobId, state |-> job.job_state,
     callback |->
        IF job.job_state \in TermState /\ job.callback_data # <<>>
        THEN <<JSONParse(job.callback_data[1])>>
        ELSE <<>>]

\* Mutant: a job that was not found is reported as one still waiting.
StatusNotFoundAsWaiting(jobId) ==
    [NoStatus EXCEPT !.code = 200, !.jobId = jobId, !.state = "waiting"]

\* The response when readOne() failed or returned no row.
StatusNotFound(jobId) == [NoStatus EXCEPT !.code = 404, !.jobId = jobId]

GetJobStatus(jobId, ok) ==
    /\ ~crashed
    /\ InitializeDatabase
    /\ dbFailures' = DbCount(ok)
    /\ lastStatus' =
          IF ~ok \/ jobId \notin DOMAIN jobs
          THEN StatusNotFound(jobId)
          ELSE StatusResponse(jobId, jobs[jobId])
    /\ cbResp' = NoCbResp
    /\ UNCHANGED <<jobs, req, nReq, child, listener, crashed, cbs, nCb, returned,
                   handled>>
    /\ UNCHANGED <<workerVars, net, resolverVars, layerVars>>

(***************************************************************************)
(* The worker process: video-transcode-worker.js.  One action per          *)
(* await-delimited segment of main() and processVideoFile(); what an       *)
(* awaited operation did (download, probe, engine, upload, fetch) is the   *)
(* input of the segment that resumes from it.                              *)
(***************************************************************************)
\* The step whose error the catch block of processVideoFile caught.
StagingErrors == {"NoSuchKey", "GetObject"}
PipelineErrors ==
    StagingErrors \cup {"resolve", "probe", "engine", "upload", "unlink", "callback"}

\* Mutant: the failure report carries the empty stack of the success report.
ErrorStackEmpty(e) == <<>>

\* error.stack of an Error: its message and the frames below it.
ErrorStack(e) == <<"Error", e>>

\* The detail of a worker's report; v is detail.outputS3Key.  inputS3Key,
\* quality, jobId, jobDuration and command are left out.
WorkerDetail(outKey, stack) == [t |-> "object", v |-> outKey, errorStack |-> stack]

\* result and errorResult of processVideoFile, for the worker of job j.
SuccessResult(j) ==
    [success |-> Bool(TRUE), detail |-> WorkerDetail(argv[j][3], <<>>)]
ErrorResult(j, e) ==
    [success |-> Bool(FALSE), detail |-> WorkerDetail(argv[j][3], ErrorStack(e))]

\* The request callJobCallback posts.
CallbackRequest(j, result) == [jobId |-> argv[j][1], body |-> result]

\* validateS3Key: an argument is a string; empty and blank ones are refused.
ValidS3Key(s3Key) == s3Key # <<>> /\ ~TrimIsEmpty(s3Key)

\* createTranscodingConfig returns for the keys of the preset table; for a
\* name found on Object.prototype qualityConfig.filters is undefined and
\* generateVideoFilters throws.
ResolveSucceeds(preset) == preset \in QUALITY_TO_PRESETS

\* path.join(tempDir, `${kind}_${Date.now()}_${originalFilename}`).
TempPath(kind, ts, s3Key) == [kind |-> kind, ts |-> ts, base |-> PathBase(s3Key)]
TempInputPath(j) == TempPath("input", tmpTs[j], argv[j][2])
TempOutputPath(j) == TempPath("output", tmpTs[j], argv[j][2])

\* The paths the catch block computes anew, with its own Date.now().
CatchPaths(j) == {TempPath("input", now, argv[j][2]), TempPath("output", now, argv[j][2])}

\* Mutant: callJobCallback lets a failed request through to its caller.
CallbackRethrowsOnError(outcome) == outcome # "ok"

\* callJobCallback catches whatever fetch or the response did: it never throws.
CallbackRethrows(outcome) == FALSE

\* A worker action leaves the server alone, and the resolver's caller.
ServerUnchanged ==
    NoResponse /\ UNCHANGED orchVars /\ UNCHANGED resolverVars /\ UNCHANGED layerVars

\* The catch block of processVideoFile, entered with error e when the temp
\* directory holds files: the recomputed paths that exist are unlinked (an
\* unlink that fails is logged and the file kept), and the failure report
\* is posted.
Catch(j, e, files) ==
    /\ caught' = [caught EXCEPT ![j] = e]
    /\ \E kept \in SUBSET (CatchPaths(j) \cap files) :
           disk' = files \ (CatchPaths(j) \ kept)
    /\ sent' = [sent EXCEPT ![j] = Append(@, ErrorResult(j, e))]
    /\ net' = net \cup {CallbackRequest(j, ErrorResult(j, e))}
    /\ wpc' = [wpc EXCEPT ![j] = "failcb"]

\* process.exit(code).
Exit(j, code) ==
    /\ wpc' = [wpc EXCEPT ![j] = "exited"]
    /\ exitCode' = [exitCode EXCEPT ![j] = code]

\* node video-transcode-worker.js args, from a shell.
CliArgs(j) ==
    {<<j, KeyA, OutputS3Key(KeyA, "720p30av1"), "720p30av1">>,
     <<j, KeyA, OutputS3Key(KeyA, "constructor"), "constructor">>,
     <<j, KeyA, OutputS3Key(KeyA, "4k-mystery"), "4k-mystery">>,
     <<j, <<" ">>, <<"o">>, "720p30av1">>,
     <<j, KeyA>>}

RunWorker(j, args) ==
    /\ wpc[j] = "off"
    /\ argv' = [argv EXCEPT ![j] = args]
    /\ wpc' = [wpc EXCEPT ![j] = "main"]
    /\ ServerUnchanged
    /\ UNCHANGED <<exitCode, tmpTs, caught, sent, engineRuns, uploads, blob,
                   disk, now, net>>

\* main(): the arguments are parsed and validated; processVideoFile makes
\* the temp directory (dirOk: whether it can), names the temp files and asks
\* for the download.  Whatever throws here reaches only the catch of main.
Main(j, dirOk) ==
    /\ wpc[j] = "main"
    /\ IF \/ Len(argv[j]) < 4
          \/ ~ValidS3Key(argv[j][2])
          \/ ~PresetLookupTruthy(argv[j][4])
          \/ ~dirOk
       THEN /\ Exit(j, 1)
            /\ UNCHANGED tmpTs
       ELSE /\ tmpTs' = [tmpTs EXCEPT ![j] = now]
            /\ wpc' = [wpc EXCEPT ![j] = "download"]
            /\ UNCHANGED exitCode
    /\ ServerUnchanged
    /\ UNCHANGED <<argv, caught, sent, engineRuns, uploads, blob, disk, now, net>>

\* What s3Service.downloadFile did: the object was written to the temp
\* input path; the request failed (always so when the bucket has no such
\* object); or the stream broke after the file was created.
DownloadOutcomes(j) ==
    IF argv[j][2] \in blob THEN {"ok", "GetObject", "broken"} ELSE {"NoSuchKey"}

\* The download resumes.  After it the transcoding configuration is made
\* and the probe is started.
Download(j, outcome) ==
    /\ wpc[j] = "download"
    /\ outcome \in DownloadOutcomes(j)
    /\ IF outcome = "ok" /\ ResolveSucceeds(argv[j][4])
       THEN /\ disk' = disk \cup {TempInputPath(j)}
            /\ wpc' = [wpc EXCEPT ![j] = "probe"]
            /\ UNCHANGED <<caught, sent, net>>
       ELSE IF outcome = "ok"
       THEN Catch(j, "resolve", disk \cup {TempInputPath(j)})
       ELSE IF outcome = "broken"
       THEN Catch(j, "GetObject", disk \cup {TempInputPath(j)})
       ELSE Catch(j, outcome, disk)
    /\ ServerUnchanged
    /\ UNCHANGED <<argv, exitCode, tmpTs, engineRuns, uploads, blob, now>>

\* getVideoMetadata settles.  When it resolved, transcodeVideo is called
\* and the engine started; a rejection is thrown by the await.
Probe(j, ok) ==
    /\ wpc[j] = "probe"
    /\ IF ok
       THEN /\ engineRuns' = [engineRuns EXCEPT ![j] = @ + 1]
            /\ wpc' = [wpc EXCEPT ![j] = "transcode"]
            /\ UNCHANGED <<caught, sent, net, disk>>
       ELSE /\ Catch(j, "probe", disk)
            /\ UNCHANGED engineRuns
    /\ ServerUnchanged
    /\ UNCHANGED <<argv, exitCode, tmpTs, uploads, blob, now>>

\* transcodeVideo returns: success with the output file written, or
\* {success: false} (with or without a partial output file), which
\* processVideoFile throws.  On success uploadFile reads the file and sends
\* the PutObject request.
TranscodeOutcomes == {"ok", "failed", "partial"}

Transcode(j, outcome) ==
    /\ wpc[j] = "transcode"
    /\ IF outcome = "ok"
       THEN /\ disk' = disk \cup {TempOutputPath(j)}
            /\ uploads' = [uploads EXCEPT ![j] = @ + 1]
            /\ wpc' = [wpc EXCEPT ![j] = "upload"]
            /\ UNCHANGED <<caught, sent, net>>
       ELSE /\ Catch(j, "engine",
                     IF outcome = "partial" THEN disk \cup {TempOutputPath(j)}
                     ELSE disk)
            /\ UNCHANGED uploads
    /\ ServerUnchanged
    /\ UNCHANGED <<argv, exitCode, tmpTs, engineRuns, blob, now>>

\* What the two unlinkSync calls after the upload did.
UnlinkOutcomes(j) ==
    {"both"} \cup (IF TempInputPath(j) \in disk THEN {"inputThrows"} ELSE {})
             \cup (IF TempOutputPath(j) \in disk THEN {"outputThrows"} ELSE {})

\* Mutant: a PutObject request that failed is taken for an upload.
UploadReturnsAlways(ok) == TRUE

\* await s3Service.uploadFile(...) returns when the PutObject request
\* succeeded and throws when it failed.
UploadReturns(ok) == ok

\* uploadFile settles.  After a successful upload the two temp files are
\* unlinked where they exist, and the success report is posted; an
\* unlinkSync that throws is caught by the catch block like any other error.
Upload(j, ok, unlink) ==
    /\ wpc[j] = "upload"
    /\ unlink \in UnlinkOutcomes(j)
    /\ IF UploadReturns(ok)
       THEN /\ blob' = IF ok THEN blob \cup {argv[j][3]} ELSE blob
            /\ IF unlink = "both"
               THEN /\ disk' = disk \ {TempInputPath(j), TempOutputPath(j)}
                    /\ sent' = [sent EXCEPT ![j] = Append(@, SuccessResult(j))]
                    /\ net' = net \cup {CallbackRequest(j, SuccessResult(j))}
                    /\ wpc' = [wpc EXCEPT ![j] = "okcb"]
                            /\ UNCHANGED caught
               ELSE IF unlink = "inputThrows"
               THEN Catch(j, "unlink", disk)
               ELSE Catch(j, "unlink", disk \ {TempInputPath(j)})
       ELSE /\ unlink = "both"
            /\ Catch(j, "upload", disk)
            /\ UNCHANGED blob
    /\ ServerUnchanged
    /\ UNCHANGED <<argv, exitCode, tmpTs, engineRuns, uploads, now>>

\* How the fetch of callJobCallback settles: a 2xx response, another
\* response, or a rejection (connection refused, reset, timed out).
FetchOutcomes == {"ok", "status", "rejected"}

\* callJobCallback returns.  After the success report the worker returns
\* and main exits 0; after the failure report the catch block throws the
\* error on and main exits 1.
FetchSettles(j, outcome) ==
    /\ wpc[j] \in {"okcb", "failcb"}
    /\ IF wpc[j] = "okcb" /\ CallbackRethrows(outcome)
       THEN /\ Catch(j, "callback", disk)
            /\ UNCHANGED exitCode
       ELSE /\ Exit(j, IF wpc[j] = "okcb" THEN 0 ELSE 1)
            /\ UNCHANGED <<caught, sent, net, disk>>
    /\ ServerUnchanged
    /\ UNCHANGED <<argv, tmpTs, engineRuns, uploads, blob, now>>

\* The worker process is killed (out of memory, a signal).
Kill(j) ==
    /\ wpc[j] \notin {"off", "exited", "killed"}
    /\ wpc' = [wpc EXCEPT ![j] = "killed"]
    /\ exitCode' = [exitCode EXCEPT ![j] = 137]
    /\ ServerUnchanged
    /\ UNCHANGED <<argv, tmpTs, caught, sent, engineRuns, uploads, blob, disk,
                   now, net>>

\* A millisecond passes.
Tick ==
    /\ now < MaxTime
    /\ now' = now + 1
    /\ ServerUnchanged
    /\ UNCHANGED <<argv, wpc, exitCode, tmpTs, caught, sent, engineRuns, uploads,
                   blob, disk, net>>

\* A client of the bucket uploads the input object.
ClientUpload(key) ==
    /\ key \notin blob
    /\ blob' = blob \cup {key}
    /\ ServerUnchanged
    /\ UNCHANGED <<argv, wpc, exitCode, tmpTs, caught, sent, engineRuns, uploads,
                   disk, now, net>>

\* Mutant: transcodeStart listens to 'exit' as it does to 'error'.
WorkerListenersWithExit == {"data", "error", "exit"}

\* The events of the child process transcodeStart registers a listener for.
WorkerListeners == {"data", "error"}

\* The child process of job j has ended: 'exit' and 'close' are emitted.  A
\* listener for them would write the job as the 'error' listener does.
ChildExit(j) ==
    /\ ~crashed
    /\ child[j] = "running"
    /\ wpc[j] \in {"exited", "killed"}
    /\ child' = [child EXCEPT ![j] = "exited"]
    /\ jobs' = IF "exit" \in WorkerListeners /\ listener[j]
               THEN UpdateRow(j, [job_state |-> SpawnErrorState])
               ELSE jobs
    /\ NoResponse
    /\ UNCHANGED <<dataAccess, req, nReq, listener, crashed, cbs, nCb,
                   dbFailures, returned, handled>>
    /\ UNCHANGED <<workerVars, net, resolverVars, layerVars>>

\* A callback request of a worker reaches the server: jobCallback runs.
ReceiveCallback(c, m, ok) ==
    /\ m \in net
    /\ net' = net \ {m}
    /\ JobCallback(c, m.jobId, m.body, ok)

(***************************************************************************)
(* Calls of the Configuration Resolver.  A caller resolves its options,    *)
(* again and again, and other callers resolve theirs in between.           *)
(***************************************************************************)
ResolveQualities == {"720p30av1", "1080p60av1", "4k-mystery", "constructor"}
ResolveCodecs == {"av1", "h264", "constructor"}

\* The keys of a filter configuration, and a value for each that is set.
FilterKeys == {"scale", "fps", "deinterlace", "denoise", "crop", "pad", "custom"}
FilterValue(key) ==
    CASE key = "scale" -> ScaleFilter(854, 480)
      [] key = "fps" -> FpsFilter(24)
      [] key = "deinterlace" -> FlagFilter(TRUE)
      [] key = "denoise" -> DenoiseFilter(4)
      [] key = "crop" -> CropFilter(640, 360)
      [] key = "pad" -> PadFilter(1280, 720)
      [] OTHER -> CustomFilter(<<"hflip", "vflip">>)

FiltersOf(keys) ==
    FiltersObject([i \in 1..Len(keys) |-> <<keys[i], FilterValue(keys[i])>>])

\* Filter configurations with values the engine cannot use.
OddFilters ==
    {FiltersObject(<<<<"fps", FpsFilter(0)>>>>),
     FiltersObject(<<<<"fps", FpsFilter(-5)>>>>),
     FiltersObject(<<<<"deinterlace", FlagFilter(FALSE)>>>>),
     FiltersObject(<<<<"crop", CropFilter(640, 360)>>,
                     <<"scale", ScaleFilter(0, -480)>>>>)}

\* No filters; crop and scale in either order; odd values.
FewFilters ==
    {FiltersObject(<<>>), FiltersOf(<<"crop", "scale">>),
     FiltersOf(<<"scale", "crop">>)} \cup OddFilters

\* The keys in the order generateVideoFilters tests them.
FilterOrder == <<"scale", "fps", "deinterlace", "denoise", "crop", "pad", "custom">>

Reverse(seq) == [i \in 1..Len(seq) |-> seq[Len(seq) + 1 - i]]

\* The keys of a set, in the order of FilterOrder.
KeysInOrder(keys) ==
    LET Pick[i \in 0..Len(FilterOrder)] ==
            IF i = 0 THEN <<>>
            ELSE IF FilterOrder[i] \in keys THEN Append(Pick[i - 1], FilterOrder[i])
            ELSE Pick[i - 1]
    IN  Pick[Len(FilterOrder)]

\* Every set of keys, inserted in the chain's order and in the reverse of
\* it, and every two keys in either order.
OrderedFilters ==
    {FiltersOf(KeysInOrder(keys)) : keys \in SUBSET FilterKeys}
    \cup {FiltersOf(Reverse(KeysInOrder(keys))) : keys \in SUBSET FilterKeys}
    \cup {FiltersOf(<<p[1], p[2]>>) :
              p \in {q \in FilterKeys \X FilterKeys : q[1] # q[2]}}

\* Quality parameters around the ends of the codec's bounds and of the
\* range validateOutput tests.
CrfValues == {-1, 0, 1, 51, 52, 60, 63, 64}

AdvancedOverrides ==
    {NoAdvanced,
     [NoAdvanced EXCEPT !.crf = JsNumber(30)],
     [NoAdvanced EXCEPT !.crf = JsNumber(50), !.preset = "11",
                        !.additionalArgs = <<<<Arg("-vsync"), Arg("0")>>>>],
     [NoAdvanced EXCEPT !.width = JsNumber(640), !.height = JsNumber(360)],
     [NoAdvanced EXCEPT !.width = JsNumber(0), !.crf = JsNumber(30)],
     [NoAdvanced EXCEPT !.width = JsNumber(-1)],
     [NoAdvanced EXCEPT !.height = JsNumber(0)],
     [NoAdvanced EXCEPT !.height = JsString("360")],
     [NoAdvanced EXCEPT !.framerate = JsNumber(24)],
     [NoAdvanced EXCEPT !.framerate = JsNumber(0)],
     [NoAdvanced EXCEPT !.framerate = JsNumber(-24)]}
    \cup {[NoAdvanced EXCEPT !.crf = JsNumber(crf)] : crf \in CrfValues}

\* The options of the caller under observation.
ResolveInputs ==
    [quality : ResolveQualities, videoCodec : ResolveCodecs,
     filters : FewFilters, advanced : AdvancedOverrides]
    \cup [quality : {"720p30av1"}, videoCodec : {"av1"},
          filters : OrderedFilters,
          advanced : {NoAdvanced, [NoAdvanced EXCEPT !.crf = JsNumber(30)]}]

\* The options of the other callers.
OtherOptions ==
    {DefaultOptions,
     [DefaultOptions EXCEPT !.quality = "1080p60av1",
                            !.filters = FiltersOf(<<"crop", "scale">>)],
     [DefaultOptions EXCEPT !.quality = "4k-mystery"]}

\* Mutant: the filter arguments are pushed onto the preset's own array.
TablesAfterCallPush(o, tabs) ==
    IF o.quality \in DOMAIN tabs.quality /\ AdvancedJsonEmpty(o.advanced)
    THEN [tabs EXCEPT !.quality[o.quality].advanced.additionalArgs =
             <<@[1] \o GenerateVideoFilters(
                           MutateFilters(o.filters, tabs.quality[o.quality]))>>]
    ELSE tabs

\* The tables after a call: createTranscodingConfig assigns to the object
\* it has made, and concat() makes a new array.
TablesAfterCall(o, tabs) == tabs

\* createTranscodingConfig(o) is called.
Resolve(o) ==
    /\ Len(calls) < MaxResolveCalls
    /\ calls' = Append(calls, [options |-> o,
                               result |-> CreateTranscodingConfig(o, tables)])
    /\ tables' = TablesAfterCall(o, tables)
    /\ UNCHANGED options
    /\ UNCHANGED <<orchVars, cbResp, lastStatus, workerVars, net, layerVars>>

ResolveInit ==
    /\ StartState(Reqs)
    /\ LayerIdle
    /\ options \in ResolveInputs
    /\ calls = <<>>
    /\ tables = ModuleTables

ResolveNext == \E o \in {options} \cup OtherOptions : Resolve(o)

ResolveSpec == ResolveInit /\ [][ResolveNext]_vars

(***************************************************************************)
(* initializeDatabase, under requests that arrive while it runs.  Every    *)
(* handler starts with `await initializeDatabase()` and then calls the     *)
(* data layer through the controller's variable dataAccess; a step here    *)
(* runs from one await to the next.  In this part dataAccess holds the     *)
(* name of the object it refers to.                                        *)
(***************************************************************************)
InstNames == <<"a1", "a2", "a3", "a4">>
InstIndex(name) == CHOOSE i \in DOMAIN InstNames : InstNames[i] = name

\* new SQLiteDataAccess(config), with its new SQLiteService(): isConnected
\* and db of the service, and the calls of open() made on it.
NewInstance == [isConnected |-> FALSE, db |-> 0, opens |-> 0]

\* createConnection up to its await: it returns this.db when the service is
\* connected, and calls open() otherwise.
NeedsOpen(i) == ~(instances[i].isConnected /\ instances[i].db # 0)

\* `if (!dataAccess)`.
HandleFreeAtCheck(p) == dataAccess = "null"

\* initializeDatabase is entered: the handle is tested, and when it is null
\* DataAccessFactory.create is awaited (a dynamic import).
InitCheck(p) ==
    /\ ireq[p].pc = "start"
    /\ ireq' = [ireq EXCEPT ![p].pc =
                   IF HandleFreeAtCheck(p) THEN "create" ELSE "ready"]
    /\ UNCHANGED <<dataAccess, instances, nConn>>

\* DataAccessFactory.create resumes: a new object is made and assigned to
\* dataAccess, and connect() is called on it, which calls open().
FactoryCreated(p) ==
    /\ ireq[p].pc = "create"
    /\ Len(instances) < Len(InstNames)
    /\ instances' = Append(instances, [NewInstance EXCEPT !.opens = 1])
    /\ dataAccess' = InstNames[Len(instances) + 1]
    /\ ireq' = [ireq EXCEPT ![p] = [@ EXCEPT !.pc = "connect",
                                             !.inst = Len(instances) + 1]]
    /\ UNCHANGED nConn

\* open() settles for the object request p connects or queries.  When it
\* resolved, the service keeps the new connection in this.db and is
\* connected; when it rejected, the error is caught and logged.
OpenSettles(p, ok) ==
    /\ instances' = IF ok
                    THEN [instances EXCEPT ![ireq[p].inst] =
                             [@ EXCEPT !.isConnected = TRUE, !.db = nConn + 1]]
                    ELSE instances
    /\ nConn' = IF ok THEN nConn + 1 ELSE nConn

\* connect() returns to initializeDatabase, which returns to the handler.
Connected(p, ok) ==
    /\ ireq[p].pc = "connect"
    /\ OpenSettles(p, ok)
    /\ ireq' = [ireq EXCEPT ![p].pc = "ready"]
    /\ UNCHANGED dataAccess

\* The handler calls dataAccess.readOne (create, update): the statement
\* goes to the service of the object dataAccess refers to now, which runs
\* it on its connection, or calls open() first when it is not connected.
UseHandle(p) ==
    /\ ireq[p].pc = "ready"
    /\ LET i == InstIndex(dataAccess)
       IN  IF NeedsOpen(i)
           THEN /\ instances' = [instances EXCEPT ![i].opens = @ + 1]
                /\ ireq' = [ireq EXCEPT ![p] = [@ EXCEPT !.pc = "open", !.inst = i]]
           ELSE /\ ireq' = [ireq EXCEPT ![p] =
                       [pc |-> "done", inst |-> i, conn |-> instances[i].db]]
                /\ UNCHANGED instances
    /\ UNCHANGED <<dataAccess, nConn>>

\* The open() of a statement settles: the statement runs on this.db, or
\* fails with {success: false} when there is no connection.
Opened(p, ok) ==
    /\ ireq[p].pc = "open"
    /\ OpenSettles(p, ok)
    /\ ireq' = [ireq EXCEPT ![p] =
           [@ EXCEPT !.pc = "done", !.conn = IF ok THEN nConn + 1 ELSE 0]]
    /\ UNCHANGED dataAccess

LayerRest ==
    /\ NoResponse
    /\ UNCHANGED <<rows, upd, store, inTx, undo, txs, writers>>
    /\ UNCHANGED <<jobs, req, nReq, child, listener, crashed, cbs, nCb,
                   dbFailures, returned, handled>>
    /\ UNCHANGED <<workerVars, net, resolverVars>>

HandleNext ==
    \/ \E p \in InitReqs : InitCheck(p) /\ LayerRest
    \/ \E p \in InitReqs : FactoryCreated(p) /\ LayerRest
    \/ \E p \in InitReqs, ok \in BOOLEAN : Connected(p, ok) /\ LayerRest
    \/ \E p \in InitReqs : UseHandle(p) /\ LayerRest
    \/ \E p \in InitReqs, ok \in BOOLEAN : Opened(p, ok) /\ LayerRest

HandleSpec == Init /\ [][HandleNext]_vars

(***************************************************************************)
(* SQLiteDataAccess.update and the QueryBuilder.  An object is the         *)
(* sequence of its entries <<key, value>> in insertion order; a query is   *)
(* kept as its SET columns and the parts of its WHERE clause, an empty     *)
(* sequence of parts standing for the empty string.                        *)
(***************************************************************************)
\* The values of a column.
SqlText(s) == [t |-> "text", s |-> s]
SqlNull == [t |-> "null", s |-> ""]

\* The values of a member of a conditions object.
CondText(s) == [t |-> "string", s |-> s, op |-> ""]
CondNull == [t |-> "null", s |-> "", op |-> ""]
CondUndefined == [t |-> "undefined", s |-> "", op |-> ""]
CondOperator(op, s) == [t |-> "object", s |-> s, op |-> op]

\* The part of the WHERE clause forEach pushes for an entry, and the
\* parameter it pushes.
WherePart(entry) ==
    IF entry[2].t = "null" THEN <<[key |-> entry[1], op |-> "IS NULL"]>>
    ELSE IF entry[2].t = "undefined" THEN <<>>
    ELSE IF entry[2].t = "object" /\ entry[2].op # ""
    THEN <<[key |-> entry[1], op |-> entry[2].op]>>
    ELSE <<[key |-> entry[1], op |-> "="]>>

WhereParam(entry) ==
    IF entry[2].t \in {"null", "undefined"} THEN <<>> ELSE <<SqlText(entry[2].s)>>

RECURSIVE WhereParts(_)
WhereParts(conditions) ==
    IF conditions = <<>> THEN <<>>
    ELSE WherePart(Head(conditions)) \o WhereParts(Tail(conditions))

RECURSIVE WhereParams(_)
WhereParams(conditions) ==
    IF conditions = <<>> THEN <<>>
    ELSE WhereParam(Head(conditions)) \o WhereParams(Tail(conditions))

\* QueryBuilder.buildWhereClause.
BuildWhereClause(conditions) ==
    IF Len(conditions) = 0
    THEN [where |-> <<>>, params |-> <<>>]
    ELSE [where |-> WhereParts(conditions), params |-> WhereParams(conditions)]

\* QueryBuilder.buildUpdateQuery.
BuildUpdateQuery(data, conditions) ==
    LET w == BuildWhereClause(conditions)
    IN  [query |-> [set |-> [i \in DOMAIN data |-> data[i][1]], where |-> w.where],
         params |-> [i \in DOMAIN data |-> data[i][2]] \o w.params]

\* SQLite runs the UPDATE: the parameters are bound to the ? of the text
\* in order, first those of SET, then those of WHERE (IS NULL has none).
WhereParamIndex(query, k) ==
    Len(query.set) + Cardinality({i \in 1..k : query.where[i].op # "IS NULL"})

WherePartHolds(row, part, param) ==
    IF part.op = "IS NULL" THEN row[part.key].t = "null"
    ELSE IF part.op = "=" THEN row[part.key].t # "null" /\ row[part.key] = param
    ELSE row[part.key].t # "null" /\ row[part.key] # param

RowSelected(row, query, params) ==
    \A k \in DOMAIN query.where :
        WherePartHolds(row, query.where[k],
                       IF query.where[k].op = "IS NULL" THEN SqlNull
                       ELSE params[WhereParamIndex(query, k)])

RowUpdated(row, query, params) ==
    [c \in DOMAIN row |->
        IF \E i \in DOMAIN query.set : query.set[i] = c
        THEN params[CHOOSE i \in DOMAIN query.set :
                        /\ query.set[i] = c
                        /\ \A k \in DOMAIN query.set : query.set[k] = c => k <= i]
        ELSE row[c]]

RunUpdate(table, query, params) ==
    [i \in DOMAIN table |->
        IF RowSelected(table[i], query, params)
        THEN RowUpdated(table[i], query, params)
        ELSE table[i]]

Changes(table, query, params) ==
    Cardinality({i \in DOMAIN table : RowSelected(table[i], query, params)})

\* `Object.keys(conditions).length === 0`: update throws, and its catch
\* returns {success: false, changes: 0}.
UpdateRefused(conditions) == Len(conditions) = 0

\* SQLiteDataAccess.update(table, data, conditions); ok is whether
\* executeQuery ran the statement.
Update(data, conditions, ok) ==
    LET q == BuildUpdateQuery(data, conditions)
        ran == ~UpdateRefused(conditions) /\ ok
    IN  /\ rows' = IF ran THEN RunUpdate(rows, q.query, q.params) ELSE rows
        /\ upd' = [called |-> TRUE, data |-> data, conditions |-> conditions,
                   before |-> rows,
                   query |-> IF UpdateRefused(conditions) THEN NoUpdate.query
                             ELSE q.query,
                   params |-> IF UpdateRefused(conditions) THEN <<>> ELSE q.params,
                   result |-> [success |-> ran,
                               changes |-> IF ran
                                           THEN Changes(rows, q.query, q.params)
                                           ELSE 0]]
        /\ UNCHANGED <<instances, nConn, ireq, store, inTx, undo, txs, writers>>
        /\ NoResponse
        /\ UNCHANGED <<orchVars, workerVars, net, resolverVars>>

\* The tables, data and conditions of the calls.
UpdateStates == {"waiting", "progressing"}
UpdateTables ==
    {<<[job_id |-> SqlText("j1"), job_state |-> SqlText(s1), callback_data |-> c1],
       [job_id |-> SqlText("j2"), job_state |-> SqlText(s2), callback_data |-> c2]>> :
         s1 \in UpdateStates, s2 \in UpdateStates,
         c1 \in {SqlNull, SqlText("cb")}, c2 \in {SqlNull}}

DataObjects ==
    {<<<<"job_state", SqlText("failed")>>>>,
     <<<<"job_state", SqlText("completed")>>, <<"callback_data", SqlText("cb")>>>>}

ConditionEntries ==
    {<<"job_id", CondText("j1")>>, <<"job_id", CondUndefined>>,
     <<"job_id", CondOperator("!=", "j1")>>,
     <<"job_state", CondText("progressing")>>, <<"job_state", CondUndefined>>,
     <<"callback_data", CondNull>>}

UpdateConditions ==
    {<<>>} \cup {<<e>> : e \in ConditionEntries}
           \cup {<<p[1], p[2]>> :
                    p \in {q \in ConditionEntries \X ConditionEntries :
                               q[1][1] # q[2][1]}}

UpdateInit ==
    /\ StartState(Reqs)
    /\ ResolverIdle
    /\ HandleIdle
    /\ rows \in UpdateTables
    /\ upd = NoUpdate
    /\ ConnectionIdle

UpdateNext ==
    \E data \in DataObjects, conditions \in UpdateConditions, ok \in BOOLEAN :
        Update(data, conditions, ok)

UpdateSpec == UpdateInit /\ [][UpdateNext]_vars

(***************************************************************************)
(* SQLiteService.executeTransaction and executeQuery on one connection.    *)
(* A step is one statement of one caller: between two awaits of a caller   *)
(* the statements of the others run.  The connection has one transaction   *)
(* state: BEGIN inside a transaction, and COMMIT or ROLLBACK outside one,  *)
(* are errors, and a statement that fails leaves the transaction open.     *)
(***************************************************************************)
\* The row statement k of transaction t writes, and the row of writer w.
TxWrite(t, k) == <<"transaction", t, k>>
QueryWrite(w) == <<"query", w, 0>>

\* db.run(query, params) resolved: the write is in the database, and in
\* the open transaction when there is one.
RunStatement(write) ==
    /\ store' = store \cup {write}
    /\ undo' = IF inTx THEN undo \cup {write} ELSE undo
    /\ UNCHANGED inTx

\* Whatever the layer does here, the rest of the program stands still.
ConnectionRest ==
    /\ NoResponse
    /\ UNCHANGED <<instances, nConn, ireq, rows, upd>>
    /\ UNCHANGED <<orchVars, workerVars, net, resolverVars>>

\* `await this.db.exec("BEGIN TRANSACTION")`; an error goes to the catch.
TxBegin(t) ==
    /\ txs[t].pc = "begin"
    /\ IF inTx
       THEN /\ txs' = [txs EXCEPT ![t].pc = "rollback"]
            /\ UNCHANGED <<store, inTx, undo>>
       ELSE /\ inTx' = TRUE
            /\ undo' = {}
            /\ txs' = [txs EXCEPT ![t].pc = "run"]
            /\ UNCHANGED store
    /\ UNCHANGED writers

\* `await this.db.run(query, params)` of the loop, for the next statement.
TxRun(t, ok) ==
    /\ txs[t].pc = "run"
    /\ IF ok
       THEN /\ RunStatement(TxWrite(t, txs[t].k + 1))
            /\ txs' = [txs EXCEPT ![t] =
                   [@ EXCEPT !.k = @ + 1,
                             !.pc = IF txs[t].k + 1 = MaxTxQueries
                                    THEN "commit" ELSE "run"]]
       ELSE /\ txs' = [txs EXCEPT ![t].pc = "rollback"]
            /\ UNCHANGED <<store, inTx, undo>>
    /\ UNCHANGED writers

\* `await this.db.exec("COMMIT")`, and the return of {success: true}.
TxCommit(t) ==
    /\ txs[t].pc = "commit"
    /\ IF inTx
       THEN /\ inTx' = FALSE
            /\ undo' = {}
            /\ txs' = [txs EXCEPT ![t] = [@ EXCEPT !.pc = "done", !.success = TRUE]]
       ELSE /\ txs' = [txs EXCEPT ![t].pc = "rollback"]
            /\ UNCHANGED <<inTx, undo>>
    /\ UNCHANGED <<store, writers>>

\* The catch block: `await this.db.exec("ROLLBACK")`, whose own error is
\* logged, and the return of {success: false}.
TxRollback(t) ==
    /\ txs[t].pc = "rollback"
    /\ store' = IF inTx THEN store \ undo ELSE store
    /\ inTx' = FALSE
    /\ undo' = {}
    /\ txs' = [txs EXCEPT ![t] = [@ EXCEPT !.pc = "done", !.success = FALSE]]
    /\ UNCHANGED writers

\* executeQuery of another caller: db.run settles and the result is returned.
ExecuteQuery(w, ok) ==
    /\ writers[w].pc = "run"
    /\ IF ok THEN RunStatement(QueryWrite(w)) ELSE UNCHANGED <<store, inTx, undo>>
    /\ writers' = [writers EXCEPT ![w] = [pc |-> "done", success |-> ok]]
    /\ UNCHANGED txs

TxNext ==
    \/ \E t \in TxIds : TxBegin(t) /\ ConnectionRest
    \/ \E t \in TxIds, ok \in BOOLEAN : TxRun(t, ok) /\ ConnectionRest
    \/ \E t \in TxIds : TxCommit(t) /\ ConnectionRest
    \/ \E t \in TxIds : TxRollback(t) /\ ConnectionRest
    \/ \E w \in WriterIds, ok \in BOOLEAN : ExecuteQuery(w, ok) /\ ConnectionRest

TxSpec == Init /\ [][TxNext]_vars

(***************************************************************************)
(* The specification.                                                      *)
(***************************************************************************)
Next ==
    \/ \E r \in Reqs, k \in BodyS3Keys, p \in BodyPresets, j \in JobIds :
           TranscodeStart(r, k, p, j)
    \/ \E r \in Reqs, ok \in DbOutcomes : CreateJobRecord(r, ok)
    \/ \E r \in Reqs, o \in SpawnOutcomes : SpawnWorker(r, o)
    \/ \E r \in Reqs, ok \in DbOutcomes : UpdateProgressing(r, ok)
    \/ \E r \in Reqs : RegisterAndRespond(r)
    \/ \E j \in JobIds, ok \in DbOutcomes : SpawnError(j, ok)
    \/ \E c \in CbSlots, j \in JobIds, b \in CallbackBodies, ok \in DbOutcomes :
           JobCallback(c, j, b, ok) /\ UNCHANGED net
    \/ \E c \in CbSlots, ok \in DbOutcomes : CallbackUpdate(c, ok)
    \/ \E j \in JobIds, ok \in DbOutcomes : GetJobStatus(j, ok)

Spec == Init /\ [][Next]_vars

(***************************************************************************)
(* Submissions alone: several transcodeStart requests, with keys of every  *)
(* shape path.parse tells apart, and nothing else running.                 *)
(***************************************************************************)
Submits == 1..MaxSubmits

\* A token that is neither "/" nor "." stands for a run of other characters.
KeyVideo == <<"uploads", "/", "video", ".", "mp4">>

SubmitKeys ==
    {KeyVideo,
     <<"video", ".", "mp4">>,
     <<"uploads", "/", "video">>,
     <<"uploads", "/", ".", "mp4">>,
     <<"/", "video", ".", "mp4">>,
     <<"a", "/", "b", "/", "video", ".", "x", ".", "mp4", "/">>}

SubmitPresets == {"720p30av1", "1080p60av1", "4k-mystery"}

SubmitInit == StartState(Submits) /\ ResolverIdle /\ LayerIdle

SubmitNext ==
    \/ \E r \in Submits, k \in SubmitKeys, p \in SubmitPresets, j \in JobIds :
           TranscodeStart(r, Str(k), Str(<<p>>), j)
    \/ \E r \in Submits, ok \in DbOutcomes : CreateJobRecord(r, ok)
    \/ \E r \in Submits, o \in SpawnOutcomes : SpawnWorker(r, o)
    \/ \E r \in Submits, ok \in DbOutcomes : UpdateProgressing(r, ok)
    \/ \E r \in Submits : RegisterAndRespond(r)
    \/ \E j \in JobIds, ok \in DbOutcomes : SpawnError(j, ok)

SubmitSpec == SubmitInit /\ [][SubmitNext]_vars

(***************************************************************************)
(* Several jobs in the Job Store: the requests of SubmitSpec with one      *)
(* valid body, and callbacks and status requests for any job id.           *)
(***************************************************************************)
\* A success report that names an output key, and a failure report.
JobsCallbackBodies ==
    {b \in CallbackBodies : b.detail = Detail(KeyOther)}

JobsNext ==
    \/ \E r \in Submits, j \in JobIds :
           TranscodeStart(r, Str(KeyA), Str(<<"720p30av1">>), j)
    \/ \E r \in Submits, ok \in DbOutcomes : CreateJobRecord(r, ok)
    \/ \E r \in Submits, o \in SpawnOutcomes : SpawnWorker(r, o)
    \/ \E r \in Submits, ok \in DbOutcomes : UpdateProgressing(r, ok)
    \/ \E r \in Submits : RegisterAndRespond(r)
    \/ \E j \in JobIds, ok \in DbOutcomes : SpawnError(j, ok)
    \/ \E c \in CbSlots, j \in JobIds, b \in JobsCallbackBodies, ok \in DbOutcomes :
           JobCallback(c, j, b, ok) /\ UNCHANGED net
    \/ \E c \in CbSlots, ok \in DbOutcomes : CallbackUpdate(c, ok)
    \/ \E j \in JobIds, ok \in DbOutcomes : GetJobStatus(j, ok)

JobsSpec == SubmitInit /\ [][JobsNext]_vars

(***************************************************************************)
(* Worker runs alone, started from a shell with any arguments; the server  *)
(* is not running and nothing receives the reports.                        *)
(***************************************************************************)
WorkerNext ==
    \/ \E j \in JobIds : \E args \in CliArgs(j) : RunWorker(j, args)
    \/ \E j \in JobIds, dirOk \in BOOLEAN : Main(j, dirOk)
    \/ \E j \in JobIds, o \in {"ok", "GetObject", "broken", "NoSuchKey"} :
           Download(j, o)
    \/ \E j \in JobIds, ok \in BOOLEAN : Probe(j, ok)
    \/ \E j \in JobIds, o \in TranscodeOutcomes : Transcode(j, o)
    \/ \E j \in JobIds, ok \in BOOLEAN,
          u \in {"both", "inputThrows", "outputThrows"} : Upload(j, ok, u)
    \/ \E j \in JobIds, o \in FetchOutcomes : FetchSettles(j, o)
    \/ \E j \in JobIds : Kill(j)
    \/ Tick
    \/ ClientUpload(KeyA)

WorkerSpec == Init /\ [][WorkerNext]_vars

(***************************************************************************)
(* The whole system: the server, the workers it spawns and the bucket.     *)
(* Callbacks come from the workers only.                                   *)
(***************************************************************************)
ServerNext ==
    \/ \E r \in Reqs, k \in BodyS3Keys, p \in BodyPresets, j \in JobIds :
           TranscodeStart(r, k, p, j)
    \/ \E r \in Reqs, ok \in DbOutcomes : CreateJobRecord(r, ok)
    \/ \E r \in Reqs, o \in SpawnOutcomes : SpawnWorker(r, o)
    \/ \E r \in Reqs, ok \in DbOutcomes : UpdateProgressing(r, ok)
    \/ \E r \in Reqs : RegisterAndRespond(r)
    \/ \E j \in JobIds, ok \in DbOutcomes : SpawnError(j, ok)
    \/ \E c \in CbSlots, m \in net, ok \in DbOutcomes : ReceiveCallback(c, m, ok)
    \/ \E c \in CbSlots, ok \in DbOutcomes : CallbackUpdate(c, ok)
    \/ \E j \in JobIds, ok \in DbOutcomes : GetJobStatus(j, ok)
    \/ \E j \in JobIds : ChildExit(j)

PipelineNext ==
    \/ \E j \in JobIds, dirOk \in BOOLEAN : Main(j, dirOk)
    \/ \E j \in JobIds, o \in {"ok", "GetObject", "broken", "NoSuchKey"} :
           Download(j, o)
    \/ \E j \in JobIds, ok \in BOOLEAN : Probe(j, ok)
    \/ \E j \in JobIds, o \in TranscodeOutcomes : Transcode(j, o)
    \/ \E j \in JobIds, ok \in BOOLEAN,
          u \in {"both", "inputThrows", "outputThrows"} : Upload(j, ok, u)
    \/ \E j \in JobIds, o \in FetchOutcomes : FetchSettles(j, o)

EnvNext ==
    \/ \E j \in JobIds : Kill(j)
    \/ Tick
    \/ ClientUpload(KeyA)

SystemNext == ServerNext \/ PipelineNext \/ EnvNext

SystemSpec == Init /\ [][SystemNext]_vars

\* Fair scheduling.  The event loop of the server runs every continuation
\* that is ready and the network delivers every request; each worker gets
\* to run, and what it awaits settles; the client goes on polling the
\* status of a job, and a read of the Job Store succeeds in the end.
\* Nothing obliges anybody to kill a worker, the clock, or the bucket's
\* clients.
SystemFairness ==
    /\ WF_vars(\E r \in Reqs, ok \in DbOutcomes : CreateJobRecord(r, ok))
    /\ WF_vars(\E r \in Reqs, o \in SpawnOutcomes : SpawnWorker(r, o))
    /\ WF_vars(\E r \in Reqs, ok \in DbOutcomes : UpdateProgressing(r, ok))
    /\ WF_vars(\E r \in Reqs : RegisterAndRespond(r))
    /\ WF_vars(\E c \in CbSlots, m \in net, ok \in DbOutcomes :
                  ReceiveCallback(c, m, ok))
    /\ WF_vars(\E c \in CbSlots, ok \in DbOutcomes : CallbackUpdate(c, ok))
    /\ \A j \in JobIds : WF_vars(GetJobStatus(j, TRUE))
    /\ WF_vars(PipelineNext)

FairSystemSpec == SystemSpec /\ SystemFairness

\* The server alone is scheduled fairly: its continuations run when they
\* are ready.  A worker may stop anywhere, or never take a step.
ServerFairness ==
    /\ WF_vars(\E r \in Reqs, ok \in DbOutcomes : CreateJobRecord(r, ok))
    /\ WF_vars(\E r \in Reqs, o \in SpawnOutcomes : SpawnWorker(r, o))
    /\ WF_vars(\E r \in Reqs, ok \in DbOutcomes : UpdateProgressing(r, ok))
    /\ WF_vars(\E r \in Reqs : RegisterAndRespond(r))

FairServerSpec == SystemSpec /\ ServerFairness

(***************************************************************************)
(* Steps of the handlers, as seen on a pair of states.                     *)
(***************************************************************************)
\* Slot c's jobCallback read its job and went on to the update.
CallbackReadStep(c) == cbs[c].pc = "idle" /\ cbs'[c].pc = "update"
\* Slot c's jobCallback was answered after its read.
CallbackRejectStep(c) == cbs[c].pc = "idle" /\ cbs'[c].pc = "done"
\* Slot c's jobCallback was answered after its update.
CallbackUpdateStep(c) == cbs[c].pc = "update" /\ cbs'[c].pc = "done"
\* The 'error' event of job j's child process was emitted.
SpawnErrorStep(j) == child[j] = "spawnfailed" /\ child'[j] = "errored"

Rank(state) ==
    CASE state = "waiting" -> 0
      [] state = "progressing" -> 1
      [] OTHER -> 2

(***************************************************************************)
(* C1.  A getStatus issued after create returned the job id with status    *)
(* 'progressing' never reports 'waiting', and reports 'progressing' when   *)
(* no callback has been handled for the job.                               *)
(***************************************************************************)
C1_StatusAfterCreate ==
    (lastStatus.code = 200 /\ lastStatus.jobId \in returned) =>
        /\ lastStatus.state # "waiting"
        /\ (\A t \in BOOLEAN : <<lastStatus.jobId, t>> \notin handled) =>
               lastStatus.state = "progressing"

(***************************************************************************)
(* C2.  A job's stored state only moves forward in the order               *)
(* waiting < progressing < {completed, failed}, in every step.             *)
(***************************************************************************)
C2_StateMonotonic ==
    [][\A j \in DOMAIN jobs :
          Rank(jobs'[j].job_state) >= Rank(jobs[j].job_state)]_vars

C5_CompletedOnlyBySuccessCallback ==
    \A j \in DOMAIN jobs :
        jobs[j].job_state = "completed" => <<j, TRUE>> \in handled

\* A completed job whose child process failed to launch and whose 'error'
\* listener ran: the callback, not the listener, completed it.
C5_Witness ==
    \E j \in DOMAIN jobs :
        /\ jobs[j].job_state = "completed"
        /\ child[j] = "errored"
        /\ listener[j]

(***************************************************************************)
(* C6.  When the child process emits 'error' (it could not be launched),   *)
(* the job's stored state becomes failed and the request is not answered   *)
(* with an error, whenever the event comes.                                *)
(***************************************************************************)
C6_SpawnErrorFailsJob ==
    [][\A j \in JobIds :
          SpawnErrorStep(j) =>
              /\ ~crashed'
              /\ j \in DOMAIN jobs' /\ jobs'[j].job_state = "failed"]_vars

(***************************************************************************)
(* C7.  A request whose s3Key is missing or empty, whose preset is         *)
(* missing, or whose preset is not a key of the preset table is rejected   *)
(* with 400: it inserts no job row and spawns no worker.                   *)
(***************************************************************************)
C7_InvalidRequestRejected ==
    /\ \A r \in Reqs :
          req[r].pc \in {"insert", "spawn", "update", "listen"} =>
              /\ req[r].preset \in QUALITY_TO_PRESETS
              /\ req[r].s3Key # <<>>
    /\ \A j \in DOMAIN jobs :
          /\ jobs[j].target_quality \in QUALITY_TO_PRESETS
          /\ jobs[j].input_s3_key # <<>>

(***************************************************************************)
(* C8.  Whenever getStatus returns a terminal state, the response carries  *)
(* the callback payload.                                                   *)
(***************************************************************************)
C8_TerminalStatusHasCallback ==
    (lastStatus.code = 200 /\ lastStatus.state \in TermState) =>
        lastStatus.callback # <<>>

(***************************************************************************)
(* C9.  A job's callback_data is non-null only if its job_state is         *)
(* completed or failed.                                                    *)
(***************************************************************************)
C9_PayloadOnlyWhenTerminal ==
    \A j \in DOMAIN jobs :
        jobs[j].callback_data # <<>> => jobs[j].job_state \in TermState

(***************************************************************************)
(* C10.  As claimed: no operation after the insert changes a job's         *)
(* output_s3_key.                                                          *)
(***************************************************************************)
C10_OutputKeyNeverChanges ==
    [][\A j \in DOMAIN jobs :
          jobs'[j].output_s3_key = jobs[j].output_s3_key]_vars

(***************************************************************************)
(* C10, amended.  A job's output_s3_key is changed only by a callback      *)
(* whose success is truthy and whose detail carries an outputS3Key, which  *)
(* replaces it; the progressing update, the spawn 'error' handler and      *)
(* every other callback leave it as the insert wrote it.                   *)
(***************************************************************************)
C10_OutputKeyChangedOnlyBySuccessCallback ==
    [][\A j \in DOMAIN jobs :
          jobs'[j].output_s3_key # jobs[j].output_s3_key =>
              \E c \in CbSlots :
                  /\ CallbackUpdateStep(c)
                  /\ cbs[c].jobId = j
                  /\ cbs[c].body.success = Bool(TRUE)
                  /\ cbs[c].body.detail.t = "object"
                  /\ jobs'[j].output_s3_key = cbs[c].body.detail.v]_vars

\* A job failed by a callback that named another output key, progressing
\* update done, still holding the key computed at its creation.
C10_Witness ==
    \E j \in DOMAIN jobs :
        /\ handled = {<<j, FALSE>>}
        /\ j \in returned
        /\ jobs[j].callback_data =
              <<JSONStringify([success |-> Bool(FALSE), detail |-> Detail(KeyOther)])>>
        /\ jobs[j].output_s3_key =
              OutputS3Key(jobs[j].input_s3_key, jobs[j].target_quality)

(***************************************************************************)
(* C11.  The output key a submission stores is a function of its s3Key and *)
(* preset alone: two rows with the same pair hold the same output key,     *)
(* whatever their job ids, and the key is the input's directory, a slash   *)
(* when there is a directory, then its name, "_", the preset and its       *)
(* extension; ("uploads/video.mp4", "720p30av1") gives                     *)
(* "uploads/video_720p30av1.mp4".                                          *)
(***************************************************************************)
C11_Parts(key) ==
    CASE key = <<"uploads", "/", "video", ".", "mp4">> ->
             [dir |-> <<"uploads", "/">>, name |-> <<"video">>, ext |-> <<".", "mp4">>]
      [] key = <<"video", ".", "mp4">> ->
             [dir |-> <<>>, name |-> <<"video">>, ext |-> <<".", "mp4">>]
      [] key = <<"uploads", "/", "video">> ->
             [dir |-> <<"uploads", "/">>, name |-> <<"video">>, ext |-> <<>>]
      [] key = <<"uploads", "/", ".", "mp4">> ->
             [dir |-> <<"uploads", "/">>, name |-> <<".", "mp4">>, ext |-> <<>>]
      [] key = <<"/", "video", ".", "mp4">> ->
             [dir |-> <<"/", "/">>, name |-> <<"video">>, ext |-> <<".", "mp4">>]
      [] key = <<"a", "/", "b", "/", "video", ".", "x", ".", "mp4", "/">> ->
             [dir |-> <<"a", "/", "b", "/">>, name |-> <<"video", ".", "x">>,
              ext |-> <<".", "mp4">>]

C11_OutputKeyDeterministic ==
    /\ \A j \in DOMAIN jobs :
          LET parts == C11_Parts(jobs[j].input_s3_key)
          IN  jobs[j].output_s3_key =
                  parts.dir \o parts.name \o <<"_", jobs[j].target_quality>> \o parts.ext
    /\ \A i, j \in DOMAIN jobs :
          (/\ jobs[i].input_s3_key = jobs[j].input_s3_key
           /\ jobs[i].target_quality = jobs[j].target_quality) =>
              jobs[i].output_s3_key = jobs[j].output_s3_key
    /\ \A j \in DOMAIN jobs :
          (/\ jobs[j].input_s3_key = <<"uploads", "/", "video", ".", "mp4">>
           /\ jobs[j].target_quality = "720p30av1") =>
              jobs[j].output_s3_key =
                  <<"uploads", "/", "video", "_", "720p30av1", ".", "mp4">>

\* Two jobs submitted with ("uploads/video.mp4", "720p30av1"), both stored,
\* both dispatched.
C11_Witness ==
    /\ DOMAIN jobs = {"j1", "j2"}
    /\ \A j \in DOMAIN jobs :
          /\ jobs[j].input_s3_key = <<"uploads", "/", "video", ".", "mp4">>
          /\ jobs[j].target_quality = "720p30av1"
          /\ j \in returned

(***************************************************************************)
(* C14.  The stored job_state of every job is always one of waiting,       *)
(* progressing, completed and failed: the insert, the update after the     *)
(* spawn, the 'error' listener and the callback write no other value.      *)
(***************************************************************************)
C14_StateInEnum ==
    \A j \in DOMAIN jobs :
        jobs[j].job_state \in {"waiting", "progressing", "completed", "failed"}

\* A job every writer has written: inserted, dispatched, failed by the
\* 'error' listener and by a callback, completed by another callback.
C14_Witness ==
    \E j \in DOMAIN jobs :
        /\ j \in returned
        /\ child[j] = "errored" /\ listener[j]
        /\ <<j, FALSE>> \in handled
        /\ <<j, TRUE>> \in handled
        /\ jobs[j].job_state = "completed"

(***************************************************************************)
(* Steps of a worker, as seen on a pair of states.                         *)
(***************************************************************************)
\* The probe of job j's worker settled and the worker went on.
ProbeSettledStep(j) == wpc[j] = "probe" /\ wpc'[j] \notin {"probe", "killed"}
\* The upload of job j's worker succeeded and the worker went on.
UploadedStep(j) ==
    /\ wpc[j] = "upload" /\ wpc'[j] \notin {"upload", "killed"}
    /\ caught'[j] # "upload"

(***************************************************************************)
(* C15.  When staging the input fails (the bucket has no such object, or   *)
(* the download breaks), the worker never invokes the transcoding engine   *)
(* and never uploads, and the one report it sends has success false and a  *)
(* non-empty errorStack.                                                   *)
(***************************************************************************)
C15_StagingFailureReported ==
    \A j \in JobIds :
        caught[j] \in {"NoSuchKey", "GetObject"} =>
            /\ engineRuns[j] = 0
            /\ uploads[j] = 0
            /\ Len(sent[j]) = 1
            /\ sent[j][1].success = Bool(FALSE)
            /\ sent[j][1].detail.errorStack # <<>>

\* A worker whose input was not in the bucket has reported and exited 1.
C15_Witness ==
    \E j \in JobIds :
        /\ caught[j] = "NoSuchKey"
        /\ argv[j][2] \notin blob
        /\ wpc[j] = "exited" /\ exitCode[j] = 1

(***************************************************************************)
(* C16.  A worker that exits with status 1 has sent a report with success  *)
(* false and an errorStack before it exited, whichever step failed:        *)
(* validation of the arguments, staging, resolution, engine or upload.     *)
(***************************************************************************)
C16_FailureAlwaysReported ==
    \A j \in JobIds :
        (wpc[j] = "exited" /\ exitCode[j] = 1) =>
            \E i \in 1..Len(sent[j]) :
                /\ sent[j][i].success = Bool(FALSE)
                /\ sent[j][i].detail.errorStack # <<>>

(***************************************************************************)
(* C17.  Whatever the probe of the staged input did, the worker goes on to *)
(* invoke the transcoding engine and sends no report at that point: a      *)
(* failed probe alone causes no report with success false.                 *)
(***************************************************************************)
C17_ProbeNonFatal ==
    [][\A j \in JobIds :
          ProbeSettledStep(j) =>
              /\ wpc'[j] = "transcode"
              /\ engineRuns'[j] = engineRuns[j] + 1
              /\ sent'[j] = sent[j]]_vars

(***************************************************************************)
(* C18.  After a successful upload the worker reports success true and     *)
(* goes on to exit 0, whether or not the temp files could be deleted.      *)
(***************************************************************************)
C18_CleanupBestEffort ==
    [][\A j \in JobIds :
          UploadedStep(j) =>
              /\ wpc'[j] = "okcb"
              /\ Len(sent'[j]) = 1
              /\ sent'[j][1].success = Bool(TRUE)]_vars

(***************************************************************************)
(* C20.  A worker run sends at most one callback request, on the success   *)
(* path and on every failure path.                                         *)
(***************************************************************************)
C20_AtMostOneCallback == \A j \in JobIds : Len(sent[j]) <= 1

\* A worker has exited 0 after a success report that the server refused or
\* never got, and another has exited 1 after its failure report.
C20_Witness ==
    /\ wpc["j1"] = "exited" /\ exitCode["j1"] = 0 /\ Len(sent["j1"]) = 1
    /\ wpc["j2"] = "exited" /\ exitCode["j2"] = 1 /\ Len(sent["j2"]) = 1

(***************************************************************************)
(* C19.  No cancellation, no timeout.  While the worker the server         *)
(* launched for a progressing job has sent no callback, whether it was     *)
(* killed, has ended or is still somewhere in its pipeline, no step        *)
(* changes the state of the job: it stays progressing.                     *)
(***************************************************************************)
C19_SilentWorkerStaysProgressing ==
    [][\A j \in DOMAIN jobs :
           (/\ child[j] \in {"running", "exited"}
            /\ sent[j] = <<>>
            /\ jobs[j].job_state = "progressing")
               => (j \in DOMAIN jobs' /\ jobs'[j].job_state = "progressing")]_vars

\* The worker of a dispatched job was killed before it reported anything,
\* the server has seen its child process end, and a later status request
\* is answered progressing.
C19_Witness ==
    \E j \in DOMAIN jobs :
        /\ j \in returned
        /\ wpc[j] = "killed" /\ sent[j] = <<>>
        /\ child[j] = "exited" /\ listener[j]
        /\ lastStatus.code = 200
        /\ lastStatus.jobId = j
        /\ lastStatus.state = "progressing"

(***************************************************************************)
(* C12.  End to end, success.  Once the success report of job j's worker   *)
(* has been taken by the callback handler and written to the Job Store,    *)
(* under fair scheduling a status request for j is eventually answered     *)
(* with state completed and a callback whose detail names the output key   *)
(* computed when the job was created.                                      *)
(***************************************************************************)
C12_EventuallyCompleted ==
    \A j \in JobIds :
        (<<j, TRUE>> \in handled) ~>
            (/\ lastStatus.code = 200
             /\ lastStatus.jobId = j
             /\ lastStatus.state = "completed"
             /\ lastStatus.callback # <<>>
             /\ lastStatus.callback[1].detail.v = argv[j][3])

(***************************************************************************)
(* C13.  End to end, failure.  Once the failure report of a worker whose   *)
(* input was not in the bucket has been taken by the callback handler and  *)
(* written to the Job Store, under fair scheduling a status request for    *)
(* the job is eventually answered with state failed and a callback whose   *)
(* errorStack is not empty.                                                *)
(***************************************************************************)
C13_EventuallyFailed ==
    \A j \in JobIds :
        (<<j, FALSE>> \in handled /\ caught[j] = "NoSuchKey") ~>
            (/\ lastStatus.code = 200
             /\ lastStatus.jobId = j
             /\ lastStatus.state = "failed"
             /\ lastStatus.callback # <<>>
             /\ lastStatus.callback[1].detail.errorStack # <<>>)

C22_StoreFailureIsInternalError ==
    [][dbFailures' = dbFailures + 1 =>
           /\ lastStatus'.code # 0 => lastStatus'.code >= 500
           /\ cbResp'.code # 0 => cbResp'.code >= 500
           /\ \A r \in DOMAIN req :
                  req'[r] # req[r] => (req'[r].pc = "done" /\ req'[r].code >= 500)]_vars

(***************************************************************************)
(* C23.  Dispatch is fire and forget.  Once the worker of a create request *)
(* is launched, the request is answered 200 with the job id, under fair    *)
(* scheduling of the server alone: the worker may print nothing, send no   *)
(* callback and never end.                                                 *)
(***************************************************************************)
C23_ResponseWithoutWorker ==
    \A r \in Reqs : \A j \in JobIds :
        (req[r].pc = "update" /\ req[r].jobId = j /\ child[j] = "running") ~>
            (req[r].pc = "done" /\ req[r].code = 200 /\ req[r].jobId = j)

\* A create was answered while its worker had not taken a step: it has
\* sent nothing and has not ended.
C23_Witness ==
    \E r \in Reqs : \E j \in JobIds :
        /\ req[r].pc = "done" /\ req[r].code = 200 /\ req[r].jobId = j
        /\ j \in returned
        /\ child[j] = "running"
        /\ wpc[j] = "main" /\ sent[j] = <<>> /\ exitCode[j] = -1

(***************************************************************************)
(* C24.  Two workers that are running at the same time never name the      *)
(* same temp file: the staged input and the output of one job are not the  *)
(* staged input or the output of another, also when both jobs have inputs  *)
(* of the same file name and started in the same millisecond.              *)
(***************************************************************************)
C24_TempPathsDistinct ==
    \A j1, j2 \in JobIds :
        (/\ j1 # j2
         /\ wpc[j1] \in {"download", "probe", "transcode", "upload"}
         /\ wpc[j2] \in {"download", "probe", "transcode", "upload"})
            => {TempInputPath(j1), TempOutputPath(j1)}
                   \cap {TempInputPath(j2), TempOutputPath(j2)} = {}

(***************************************************************************)
(* C25.  A step for one job leaves every other job's record as it was:     *)
(* a row changes only in the insert or the dispatch update of a create for *)
(* that job, in the 'error' listener of that job's child process or in the *)
(* update of a callback for that job; no row disappears, and the only row  *)
(* that appears is the one a create inserts.                               *)
(***************************************************************************)
C25_OtherJobsUnchanged ==
    [][/\ \A b \in DOMAIN jobs :
              /\ b \in DOMAIN jobs'
              /\ jobs'[b] # jobs[b] =>
                     \/ \E r \in DOMAIN req :
                            /\ req[r].pc = "update" /\ req'[r].pc = "listen"
                            /\ req[r].jobId = b
                     \/ SpawnErrorStep(b)
                     \/ \E c \in CbSlots :
                            CallbackUpdateStep(c) /\ cbs[c].jobId = b
       /\ \A b \in DOMAIN jobs' \ DOMAIN jobs :
              \E r \in DOMAIN req :
                  /\ req[r].pc = "insert" /\ req'[r].pc = "spawn"
                  /\ req[r].jobId = b]_vars

\* Two jobs are in the table; one was completed by a callback and the
\* other failed by its 'error' listener, and has no callback data.
C25_Witness ==
    /\ DOMAIN jobs = {"j1", "j2"}
    /\ <<"j1", TRUE>> \in handled
    /\ jobs["j1"].job_state = "completed" /\ jobs["j1"].callback_data # <<>>
    /\ child["j2"] = "errored" /\ listener["j2"]
    /\ jobs["j2"].job_state = "failed" /\ jobs["j2"].callback_data = <<>>

C27_Place(f) ==
    CASE f = "scale" -> 1 [] f = "fps" -> 2 [] f = "yadif" -> 3
      [] f = "hqdn3d" -> 4 [] f = "crop" -> 5 [] f = "pad" -> 6 [] OTHER -> 7

\* The name a filter key has in the chain.
C27_Name(key) ==
    CASE key = "deinterlace" -> "yadif" [] key = "denoise" -> "hqdn3d" [] OTHER -> key

\* The chains among the arguments of a result.
C27_Chains(result) ==
    IF result.output.additionalArgs = <<>> THEN {}
    ELSE LET args == result.output.additionalArgs[1]
         IN  {args[i].chain : i \in {k \in 1..Len(args) : args[k].flag = "-vf"}}

C27_FilterChainOrder ==
    \A i \in DOMAIN calls :
        calls[i].result.ok =>
            \A chain \in C27_Chains(calls[i].result) :
                /\ \A a, b \in 1..Len(chain) :
                       a < b =>
                           \/ C27_Place(chain[a].f) < C27_Place(chain[b].f)
                           \/ C27_Place(chain[a].f) = 7 /\ C27_Place(chain[b].f) = 7
                /\ LET members == calls[i].options.filters.members
                   IN  \A m \in 1..Len(members) :
                           (members[m][1] # "custom" /\ FilterTruthy(members[m][2]))
                               => \E a \in 1..Len(chain) :
                                      chain[a].f = C27_Name(members[m][1])

\* A configuration resolved from filters whose seven keys were inserted in
\* the reverse of the chain's order, and one from crop before scale.
C27_Witness ==
    /\ Len(calls) >= 1
    /\ calls[1].options.filters =
           FiltersOf(<<"custom", "pad", "crop", "denoise", "deinterlace",
                       "fps", "scale">>)
    /\ calls[1].result.ok
    /\ \E chain \in C27_Chains(calls[1].result) :
           /\ Len(chain) = 8
           /\ chain[1].f = "scale" /\ chain[5].f = "crop" /\ chain[8].f = "vflip"

(***************************************************************************)
(* C28.  Overrides replace, they are not merged.  For a preset of the      *)
(* table: with no filter override the chain is the preset's (its fps), and *)
(* with one the chain holds the caller's filters only, the preset's fps    *)
(* not among them; with no advanced override the engine arguments are the  *)
(* preset's, and with one they are the caller's, none of the preset's, and *)
(* crf and preset are the caller's where it names them.                    *)
(***************************************************************************)
\* The chain and the engine arguments of a preset, as its table entry has them.
C28_PresetChain(q) ==
    <<FilterText("fps", <<IF q = "1080p60av1" THEN 60 ELSE 30>>)>>
C28_PresetArgs(q) ==
    <<Arg("-svtav1-params"), Arg(IF q = "1080p60av1" THEN "levels=3" ELSE "levels=2")>>

\* The arguments of a result apart from its filter chain.
C28_PlainArgs(result) ==
    IF result.output.additionalArgs = <<>> THEN <<>>
    ELSE LET IsPlain(arg) == arg.flag # "-vf"
         IN  SelectSeq(result.output.additionalArgs[1], IsPlain)

\* The filters a filter configuration asks for, by their names in a chain.
C28_Asked(filters) ==
    {C27_Name(filters.members[m][1]) :
        m \in {k \in 1..Len(filters.members) :
                  /\ filters.members[k][1] # "custom"
                  /\ FilterTruthy(filters.members[k][2])}}
    \cup UNION {{filters.members[m][2].list[n] :
                    n \in 1..Len(filters.members[m][2].list)} :
                m \in {k \in 1..Len(filters.members) :
                          filters.members[k][1] = "custom"}}

C28_OverridesReplace ==
    \A i \in DOMAIN calls :
        LET o == calls[i].options
            r == calls[i].result
        IN  (r.ok /\ o.quality \in QUALITY_TO_PRESETS) =>
               /\ o.filters.members = <<>> =>
                      C27_Chains(r) = {C28_PresetChain(o.quality)}
               /\ o.filters.members # <<>> =>
                      \A chain \in C27_Chains(r) :
                          /\ {chain[a].f : a \in 1..Len(chain)} = C28_Asked(o.filters)
                          /\ \A a \in 1..Len(chain) :
                                 chain[a].f = "fps" =>
                                     chain[a].args = <<FilterMember(o.filters, "fps").n>>
               /\ o.advanced = NoAdvanced =>
                      /\ C28_PlainArgs(r) = C28_PresetArgs(o.quality)
                      /\ r.output.crf = JsNumber(49)
               /\ o.advanced # NoAdvanced =>
                      /\ C28_PlainArgs(r) =
                             IF o.advanced.additionalArgs = <<>> THEN <<>>
                             ELSE o.advanced.additionalArgs[1]
                      /\ o.advanced.crf # JsUndefined => r.output.crf = o.advanced.crf
                      /\ o.advanced.preset # "" => r.output.preset = o.advanced.preset

\* A call with filter and advanced overrides of its own (crop and scale, no
\* fps; crf, preset and two engine arguments), and a call with none.
C28_Witness ==
    /\ Len(calls) >= 2
    /\ calls[1].options =
           [DefaultOptions EXCEPT
               !.filters = FiltersOf(<<"crop", "scale">>),
               !.advanced = [NoAdvanced EXCEPT
                                !.crf = JsNumber(50), !.preset = "11",
                                !.additionalArgs = <<<<Arg("-vsync"), Arg("0")>>>>]]
    /\ calls[1].result.ok
    /\ calls[1].result.output.crf = JsNumber(50)
    /\ calls[2].options = DefaultOptions
    /\ calls[2].result.ok

(***************************************************************************)
(* C29.  A call whose preset name is not in the preset table, or whose     *)
(* codec name is not in the codec table, fails, whatever its filter and    *)
(* advanced overrides are: no configuration is returned for it.            *)
(***************************************************************************)
C29_UnknownNameFails ==
    \A i \in DOMAIN calls :
        (\/ calls[i].options.quality \notin QUALITY_TO_PRESETS
         \/ calls[i].options.videoCodec \notin DOMAIN VIDEO_CODECS)
            => ~calls[i].result.ok

(***************************************************************************)
(* C30.  No returned configuration carries a width, height or framerate    *)
(* that is not a positive number: its width and height are positive        *)
(* numbers, its framerate, when it has one, is a positive number, and the  *)
(* scale and fps items of its filter chain, which carry the sizes and the  *)
(* rate of the filter overrides, hold positive numbers only.               *)
(***************************************************************************)
C30_Positive(x) == x.t = "number" /\ x.n > 0

C30_OutputPositive(output) ==
    /\ C30_Positive(output.width)
    /\ C30_Positive(output.height)
    /\ output.framerate # JsUndefined => C30_Positive(output.framerate)

C30_ChainPositive(output) ==
    \A a \in DOMAIN output.additionalArgs :
        \A k \in DOMAIN output.additionalArgs[a] :
            \A c \in DOMAIN output.additionalArgs[a][k].chain :
                LET item == output.additionalArgs[a][k].chain[c]
                IN  item.f \in {"scale", "fps"} =>
                        \A n \in DOMAIN item.args : item.args[n] > 0

C30_ReturnedValuesPositive ==
    \A i \in DOMAIN calls :
        calls[i].result.ok =>
            /\ C30_OutputPositive(calls[i].result.output)
            /\ C30_ChainPositive(calls[i].result.output)

(***************************************************************************)
(* C31.  For a codec of the codec table, a call whose advanced overrides   *)
(* name a numeric quality parameter (crf) is rejected when the value lies  *)
(* outside the codec's quality bounds (0..63 for av1) and is not rejected  *)
(* for its crf when the value lies inside them.                            *)
(***************************************************************************)
C31_InBounds(codec, crf) ==
    /\ VIDEO_CODECS[codec].quality.min <= crf
    /\ crf <= VIDEO_CODECS[codec].quality.max

C31_CrfAcceptedWithinBounds ==
    \A i \in DOMAIN calls :
        LET o == calls[i].options
        IN  (o.videoCodec \in DOMAIN VIDEO_CODECS /\ o.advanced.crf.t = "number") =>
                IF C31_InBounds(o.videoCodec, o.advanced.crf.n)
                THEN calls[i].result.error # "crf"
                ELSE ~calls[i].result.ok

(***************************************************************************)
(* C32.  A job is stored as completed only after its worker's upload: a    *)
(* worker has sent a PutObject request only if the engine ran and reported *)
(* success, it has sent the success report only if its upload returned and *)
(* the output object is in the bucket, and a job whose stored state is     *)
(* completed has its output object in the bucket.                          *)
(***************************************************************************)
C32_SentSuccess(j) == \E i \in DOMAIN sent[j] : sent[j][i].success = Bool(TRUE)

C32_CompletedAfterUpload ==
    /\ \A j \in JobIds :
           uploads[j] > 0 =>
               /\ engineRuns[j] > 0
               /\ caught[j] \notin StagingErrors \cup {"resolve", "probe", "engine"}
    /\ \A j \in JobIds :
           C32_SentSuccess(j) =>
               /\ uploads[j] > 0
               /\ caught[j] # "upload"
               /\ argv[j][3] \in blob
    /\ \A j \in DOMAIN jobs :
           jobs[j].job_state = "completed" =>
               /\ C32_SentSuccess(j)
               /\ jobs[j].output_s3_key \in blob

\* A job is stored as completed: its worker uploaded the output object,
\* sent the success report and the server handled it.
C32_Witness ==
    \E j \in DOMAIN jobs :
        /\ jobs[j].job_state = "completed"
        /\ uploads[j] = 1 /\ engineRuns[j] = 1
        /\ <<j, TRUE>> \in handled
        /\ jobs[j].output_s3_key \in blob

(***************************************************************************)
(* C33.  When the catch block of a worker run has done its cleanup, every  *)
(* temp file of the run that is still in the temp directory is one the     *)
(* cleanup tried to delete: the paths it unlinks are the input and output  *)
(* paths the run created, so only a failed deletion leaves a file behind.  *)
(***************************************************************************)
\* The catch block of job j's worker ran.
C33_CatchStep(j) == caught[j] = "" /\ caught'[j] # ""

C33_CleanupDeletesOwnFiles ==
    [][\A j \in JobIds :
           C33_CatchStep(j) =>
               ({TempInputPath(j), TempOutputPath(j)} \cap disk') \subseteq CatchPaths(j)]_vars

(***************************************************************************)
(* C34.  However many requests enter initializeDatabase before it has      *)
(* finished, one data-access object is made and one connection is opened,  *)
(* and every request's statement runs on that object and connection.       *)
(***************************************************************************)
C34_Used(p) == ireq[p].pc = "done" /\ ireq[p].conn # 0

C34_OneHandle ==
    /\ Len(instances) <= 1
    /\ nConn <= 1
    /\ \A p, q \in InitReqs :
           (C34_Used(p) /\ C34_Used(q)) =>
               ireq[p].inst = ireq[q].inst /\ ireq[p].conn = ireq[q].conn

(***************************************************************************)
(* C35.  A worker is dispatched only for a job whose record is in the Job  *)
(* Store, and a create whose insert failed answers 500, spawns no worker   *)
(* and leaves the store as it was.                                         *)
(***************************************************************************)
\* Request r's insert failed and the request was answered.
C35_InsertFailedStep(r) == req[r].pc = "insert" /\ req'[r].pc = "done"
\* A child process was spawned for job j.
C35_SpawnStep(j) == child[j] = "none" /\ child'[j] # "none"

C35_NoWorkerWithoutRecord ==
    [][/\ \A j \in JobIds : C35_SpawnStep(j) => j \in DOMAIN jobs
       /\ \A r \in DOMAIN req :
              C35_InsertFailedStep(r) =>
                  /\ req'[r].code = 500
                  /\ jobs' = jobs
                  /\ child' = child /\ wpc' = wpc /\ argv' = argv]_vars

\* The only request so far was answered 500 after its insert failed: the
\* store is empty and no worker exists.
C35_Witness ==
    /\ nReq = 1
    /\ req[1].pc = "done" /\ req[1].code = 500
    /\ dbFailures = 1
    /\ jobs = <<>>
    /\ \A j \in JobIds : child[j] = "none" /\ wpc[j] = "off"

(***************************************************************************)
(* C36.  Whenever the worker of a stored job has exited with status 0,     *)
(* under fair scheduling the stored state of the job is completed then or  *)
(* becomes completed later.                                                *)
(***************************************************************************)
C36_ExitedZero(j) == j \in DOMAIN jobs /\ wpc[j] = "exited" /\ exitCode[j] = 0

C36_ExitZeroLeadsToCompleted ==
    \A j \in JobIds :
        C36_ExitedZero(j) ~> (j \in DOMAIN jobs /\ jobs[j].job_state = "completed")

(***************************************************************************)
(* C37.  A call of update either is refused, with success false and every  *)
(* row as it was, or runs an UPDATE that has a WHERE clause and leaves     *)
(* every row that does not match the conditions as it was.                 *)
(***************************************************************************)
\* Row matches the conditions; a member whose value is undefined, which
\* names no value to compare with, is passed over.
C37_Matches(row, conditions) ==
    \A i \in DOMAIN conditions :
        LET key == conditions[i][1]
            value == conditions[i][2]
        IN  \/ value.t = "undefined"
            \/ value.t = "null" /\ row[key].t = "null"
            \/ value.t = "string" /\ row[key] = SqlText(value.s)
            \/ value.t = "object" /\ row[key].t = "text" /\ row[key].s # value.s

C37_UpdateKeepsOtherRows ==
    upd.called =>
        IF upd.result.success
        THEN /\ upd.query.where # <<>>
             /\ \A i \in DOMAIN rows :
                    ~C37_Matches(upd.before[i], upd.conditions) =>
                        rows[i] = upd.before[i]
        ELSE rows = upd.before

(***************************************************************************)
(* C38.  executeTransaction is atomic on the shared connection: after it   *)
(* returned success false none of its writes is in the database, after it  *)
(* returned success true all of them are, and a write executeQuery has     *)
(* acknowledged with success true stays in the database.                   *)
(***************************************************************************)
C38_Writes(t) == {TxWrite(t, k) : k \in 1..MaxTxQueries}

C38_FailedLeavesNothing ==
    \A t \in TxIds :
        (txs[t].pc = "done" /\ ~txs[t].success) => C38_Writes(t) \cap store = {}

C38_SucceededKeepsAll ==
    \A t \in TxIds :
        (txs[t].pc = "done" /\ txs[t].success) => C38_Writes(t) \subseteq store

C38_AcknowledgedStays ==
    \A w \in WriterIds :
        (writers[w].pc = "done" /\ writers[w].success) => QueryWrite(w) \in store

C38_TransactionAtomic ==
    /\ C38_FailedLeavesNothing
    /\ C38_SucceededKeepsAll
    /\ C38_AcknowledgedStays

====
